---- MODULE Spec2Model ----
(***************************************************************************)
(* Model of src/src/components/TheWelcome.vue: the conflict-aware writer   *)
(* (putWithRetry and its callers) over the local PouchDB store, and the    *)
(* sync coordinator (initDatabases, startLiveSync, stopLiveSync,           *)
(* fullSyncOnce, the isOnline watcher), the channel's event handlers and   *)
(* the refreshes of postsData (fetchPosts, loadMorePosts), deletePost,     *)
(* addComment, updatePost, updateComment and the merge functions.          *)
(*                                                                         *)
(* Every `await` of the source is a suspension point: an action of the     *)
(* model is the store's answer to the pending call together with the       *)
(* synchronous code that runs up to the next await.                        *)
(***************************************************************************)
EXTENDS Integers, Sequences, FiniteSets, TLC

\* ------------------------------------------------------------------ bounds
\* highest generation an environment write (replication, other client) may reach
MaxRev == 3
\* highest generation of a document created after the start
MaxNewRev == 1
\* number of user toggles of the online checkbox
MaxToggles == 4
\* number of fetchPosts invocations whose find is pending at one time
MaxFetches == 2
\* number of error events of the channel, and of failing finds
MaxErrors == 1
\* number of times a merge function is applied in a row
MaxApply == 2
MaxFullSyncs == 2

\* ------------------------------------------------------- program constants
\* putWithRetry's default retry budget (maxRetry = 2)
DefaultMaxRetry == 2
\* createIndexes awaits four createIndex calls in turn
NumIndexes == 4
\* the page size of the posts query
PAGE_SIZE == 10
\* the limit of the comments queries
CommentLimit == 500

\* ------------------------------------------------------------- identifiers
DocIds == {"post:1", "post:2", "post:3"}
\* the posts both stores hold from the start; the others are created later
SeededIds == {"post:1"}
\* the posts the writer tasks (and the other writers racing them) work on
ContendedIds == {"post:1"}
\* the invocations of fullSyncOnce
Syncs == {"s1"}
NoId == "undefined"
Tasks == {"t1", "t2"}
NULL == "null"
\* syncHandler.value when it references no channel (channels are numbered from 1)
NoChannel == 0

\* A revision token: the generation and the writer that produced it.
NoRev == [gen |-> 0, by |-> "none"]

VARIABLES
    localDb,      \* localDb.value: NULL or "open"
    remoteDb,     \* remoteDb.value: NULL or "open"
    localDocs,    \* the local store: DocIds -> stored document
    remoteDocs,   \* the remote store: DocIds -> stored document
    call,         \* Tasks -> the asynchronous operation the task runs
    initPc,       \* where onMounted's initDatabases stands
    indexes,      \* number of createIndex calls of createIndexes that returned
    isOnline,     \* isOnline.value
    watchSeen,    \* the value of isOnline the watcher last ran with
    watchQueued,  \* the watcher's job is queued (isOnline was assigned)
    toggles,      \* number of user toggles of the online checkbox so far
    syncHandler,  \* syncHandler.value: NULL or the channel it references
    channels,     \* the continuous channels created so far: id -> status
    chanLog,      \* the sync() and cancel() calls made, in order
    cbLog,        \* the watcher callbacks run, in order
    fs,           \* Syncs -> the fullSyncOnce invocation
    localComments, \* the comments of the local store: Commenters -> document
    del,          \* the deletePost invocation
    cmt,          \* Commenters -> the addComment invocation
    upd,          \* the updateComment invocation
    postsData,    \* postsData.value: the posts displayed, in order
    fetches,      \* the fetchPosts invocations whose find is pending, in call order
    events,       \* number of channel events handled, of refreshes they started
                  \* and of failed finds
    postsBookmark, \* postsBookmark.value: NULL or the id the next page starts after
    hasMorePosts  \* hasMorePosts.value

handles == <<localDb, remoteDb>>
stores == <<localDocs, remoteDocs>>
mount == <<initPc, indexes>>
online == <<isOnline, watchSeen, watchQueued, toggles, cbLog>>
coord == <<syncHandler, channels, chanLog>>
posts == <<localComments, del, cmt, upd>>
pager == <<postsBookmark, hasMorePosts>>
view == <<postsData, fetches, events, pager>>
vars == <<localDb, remoteDb, localDocs, remoteDocs, call, initPc, indexes, isOnline,
          watchSeen, watchQueued, toggles, syncHandler, channels, chanLog, cbLog, fs,
          localComments, del, cmt, upd, postsData, fetches, events, postsBookmark,
          hasMorePosts>>

\* ------------------------------------------------------------ local store
\* The revision token of a stored document.
Rev(d) == [gen |-> d.gen, by |-> d.by]

\* A document the store answers get() with: present and not a tombstone.
Exists(d) == d.gen > 0 /\ ~d.deleted

\* A store that accepts a put whatever revision the draft carries.
PutAccepted_AnyRev(docs, draft) == draft.id \in DOMAIN docs

\* put(draft): the store accepts the write iff the draft's revision token is the
\* document's current one (compare-and-swap); otherwise it answers "409".
PutAccepted(docs, draft) == draft.id \in DOMAIN docs /\ draft.rev = Rev(docs[draft.id])

\* The store after an accepted put by writer w: a new revision holding the draft.
AfterPut(docs, draft, w) ==
    [docs EXCEPT ![draft.id] =
        [gen |-> @.gen + 1, by |-> w, likes |-> draft.likes, name |-> draft.name,
         deleted |-> FALSE]]

\* get(id) as a draft: the stored fields with _id and _rev.
Fetched(docs, id) ==
    [id |-> id, rev |-> Rev(docs[id]), likes |-> docs[id].likes, name |-> docs[id].name]

\* ---------------------------------------------------------- merge functions
\* likePost's merge: (l) => ({ ...l, likes: (l.likes || 0) + 1 })
LikeMerge(latest) == [latest EXCEPT !.likes = @ + 1]

\* A merge that puts the original name back when the form's name is the
\* stored one.
EditMerge_Toggle(latest) ==
    [latest EXCEPT !.name = IF @ = "edited" THEN "orig" ELSE "edited"]

\* A merge that rebuilds the document from the form's defaults: the edited
\* fields and a like counter of 0.
EditMerge_FromDefaults(latest) == [latest EXCEPT !.name = "edited", !.likes = 0]

\* updatePost's merge: (latest) => ({ ...latest, post_name: doc.post_name,
\* post_content: ..., attributes: ... }); the form holds the name "edited".
EditMerge(latest) == [latest EXCEPT !.name = "edited"]

Merge(kind, latest) == IF kind = "like" THEN LikeMerge(latest) ELSE EditMerge(latest)

\* ------------------------------------------------------------ putWithRetry
NoErr == [status |-> "none", at |-> 0]
NoDraft == [id |-> NoId, rev |-> NoRev, likes |-> 0, name |-> "none"]
IdleCall ==
    [op |-> "none", pc |-> "idle", draft |-> NoDraft,
     merge |-> "none", maxRetry |-> 0, budget |-> 0, log |-> <<>>,
     outcome |-> "none", err |-> NoErr, result |-> NoRev]

\* The operations that write inside a try block, log what the write throws,
\* and call fetchPosts after it returned.
CatchingOps == {"likePost", "updatePost", "addPost"}

\* The operations that write an attachment inside a try block and log what
\* the write throws.
MediaOps == {"addMediaToPost", "deleteMediaFromPost"}

\* How an operation ends when its write (or its own get) throws e: the
\* operations of the component catch and log it; a direct caller of
\* putWithRetry receives it.
Throw(c, e) ==
    [c EXCEPT !.pc = "done", !.err = e,
              !.outcome = IF c.op \in CatchingOps \cup MediaOps THEN "logged" ELSE "thrown"]

\* putWithRetry without the _id test of its guard.
EnterPutWithRetry_NoIdTest(c, db, draft, maxRetry) ==
    IF db = NULL
    THEN [c EXCEPT !.pc = "done", !.err = [status |-> "missing", at |-> 0],
                   !.outcome = IF c.op \in CatchingOps THEN "logged" ELSE "thrown"]
    ELSE [c EXCEPT !.pc = "awaitPut", !.draft = draft, !.maxRetry = maxRetry]

\* The guard of putWithRetry (line 97) followed by the put it issues (line 99).
EnterPutWithRetry(c, db, draft, maxRetry) ==
    IF db = NULL \/ draft.id = NoId
    THEN Throw(c, [status |-> "missing", at |-> 0])
    ELSE [c EXCEPT !.pc = "awaitPut", !.draft = draft, !.maxRetry = maxRetry]

\* The catch block's test without the budget: a conflict is always retried.
RetryTaken_NoBudget(status, maxRetry) == status = "409"

\* The catch block's test without the status: any error is retried.
RetryTaken_AnyStatus(status, maxRetry) == maxRetry > 0

\* The catch block's test off by one: a conflict is retried once more.
RetryTaken_OneMore(status, maxRetry) == status = "409" /\ maxRetry >= 0

\* The catch block's test: retry on a conflict while budget remains.
RetryTaken(status, maxRetry) == status = "409" /\ maxRetry > 0

Logged(c, op, res) == [c EXCEPT !.log = Append(@, [op |-> op, res |-> res])]

\* The statuses a store call may fail with besides 409 (and 404 for get).
OtherStatuses == {"500"}

\* ------------------------------------------------------------- fetchPosts
\* The posts in the order of the query's sort (created_at descending: the
\* latest created first).
PostOrder ==
    <<"post:22", "post:21", "post:20", "post:19", "post:18", "post:17", "post:16",
      "post:15", "post:14", "post:13", "post:12", "post:11", "post:10", "post:9",
      "post:8", "post:7", "post:6", "post:5", "post:4", "post:3", "post:2", "post:1">>

\* Every post the selector matches, in the order of the sort.
Held(docs) ==
    LET ids == SelectSeq(PostOrder, LAMBDA id : id \in DOMAIN docs /\ Exists(docs[id]))
    IN [i \in 1..Len(ids) |-> Fetched(docs, ids[i])]

\* localDb.find(buildPostsQuery(null)): the posts the store holds, sorted, at
\* most PAGE_SIZE of them.
Query(docs) ==
    LET held == Held(docs)
    IN SubSeq(held, 1, IF Len(held) < PAGE_SIZE THEN Len(held) ELSE PAGE_SIZE)

\* The place of a post in the query's sort order.
Place(id) == CHOOSE i \in 1..Len(PostOrder) : PostOrder[i] = id

\* A find whose page starts at the bookmarked post instead of after it.
FindPage_FromBookmark(docs, bookmark) ==
    LET rest == SelectSeq(Held(docs),
                          LAMBDA d : bookmark = NULL \/ Place(d.id) >= Place(bookmark))
        page == SubSeq(rest, 1, IF Len(rest) < PAGE_SIZE THEN Len(rest) ELSE PAGE_SIZE)
    IN [docs |-> page,
        bookmark |-> IF page = <<>> THEN bookmark ELSE page[Len(page)].id]

\* localDb.find(buildPostsQuery(bookmark)): the posts sorted after the one the
\* bookmark names (from the first one without a bookmark), at most PAGE_SIZE of
\* them, and the bookmark of the last one returned.
FindPage(docs, bookmark) ==
    LET held == Held(docs)
        rest == SelectSeq(held, LAMBDA d : bookmark = NULL \/ Place(d.id) > Place(bookmark))
        page == SubSeq(rest, 1, IF Len(rest) < PAGE_SIZE THEN Len(rest) ELSE PAGE_SIZE)
    IN [docs |-> page,
        bookmark |-> IF page = <<>> THEN bookmark ELSE page[Len(page)].id]

\* fetchPosts before its await: postsBookmark.value = null; hasMorePosts.value = true.
PagerReset == postsBookmark' = NULL /\ hasMorePosts' = TRUE

\* The step calls fetchPosts, or leaves the pager alone.
PagerAfter(fetchPostsCalled) == IF fetchPostsCalled THEN PagerReset ELSE UNCHANGED pager

\* fetchPosts after its await: the page replaces the list (lines 239-241).
Shown(res) ==
    /\ postsData' = res.docs
    /\ postsBookmark' = res.bookmark
    /\ hasMorePosts' = (Len(res.docs) = PAGE_SIZE)

\* loadMorePosts after its await: the page is appended to the list (lines 257-259).
Appended(res) ==
    /\ postsData' = postsData \o res.docs
    /\ postsBookmark' = res.bookmark
    /\ hasMorePosts' = (Len(res.docs) = PAGE_SIZE)

\* ------------------------------------------------- deletePost, addComment
\* the invocations of addComment, on this client or on another one; each mints
\* the id of its comment (uid())
Commenters == {"c1", "c2"}
NoComment == [gen |-> 0, by |-> "none", postId |-> NoId, text |-> "none", deleted |-> FALSE]
\* found: the comments the find returned; alone: no other writer of the local
\* store acted since the call.
IdleDelete ==
    [pc |-> "idle", id |-> NoId, rev |-> NoRev, found |-> {}, log |-> <<>>,
     outcome |-> "none", alone |-> TRUE]
IdleComment == [pc |-> "idle", postId |-> NoId, outcome |-> "none"]
\* draft: the comment as updateComment holds it (_rev, postId, text)
NoCommentDraft == [rev |-> NoRev, postId |-> NoId, text |-> "none"]
IdleUpdate ==
    [pc |-> "idle", c |-> NoId, draft |-> NoCommentDraft, maxRetry |-> 0,
     log |-> <<>>, outcome |-> "none"]

TypeOK ==
    /\ localDb \in {NULL, "open"}
    /\ remoteDb \in {NULL, "open"}
    /\ \A t \in Tasks : call[t].pc \in
          {"idle", "awaitGet", "awaitPut", "awaitRetryGet", "awaitFetchPosts", "done",
           "applyMerge", "editing", "awaitFetchData"}
    /\ del.pc \in {"idle", "awaitRemove", "awaitFind", "awaitBulkDocs",
                   "awaitFetchPosts", "done"}
    /\ \A t \in Commenters : cmt[t].pc \in {"idle", "awaitPut", "awaitFetchComments", "done"}
    /\ Len(fetches) <= MaxFetches
    /\ \A i \in 1..Len(fetches) : fetches[i].pc \in {"awaitFind", "found"}
    /\ Len(postsData) <= Len(PostOrder) * (MaxFetches + 1)
    /\ hasMorePosts \in BOOLEAN
    /\ postsBookmark \in {PostOrder[i] : i \in 1..Len(PostOrder)} \cup {NULL}

InitialDoc == [gen |-> 1, by |-> "seed", likes |-> 0, name |-> "orig", deleted |-> FALSE]
\* An id the store holds no document for.
AbsentDoc == [gen |-> 0, by |-> "none", likes |-> 0, name |-> "none", deleted |-> FALSE]
SeededDocs == [id \in DocIds |-> IF id \in SeededIds THEN InitialDoc ELSE AbsentDoc]

\* moved: the transfers made; writes: their number per leg; atStart: the
\* documents each store was ahead with when fullSyncOnce was called; quiet: no
\* other writer touched a store while the invocation ran.
IdleSync ==
    [pc |-> "idle", log |-> <<>>, outcome |-> "none", moved |-> {},
     writes |-> [push |-> 0, pull |-> 0], atStart |-> [push |-> {}, pull |-> {}],
     quiet |-> TRUE]

\* The component before it is mounted, but for its writers, the local store and
\* the synchronisations it started.
InitCore ==
    /\ localDb = NULL
    /\ remoteDb = NULL
    /\ remoteDocs = SeededDocs
    /\ initPc = "unmounted"
    /\ indexes = 0
    /\ isOnline = TRUE
    /\ watchSeen = TRUE
    /\ watchQueued = FALSE
    /\ toggles = 0
    /\ syncHandler = NoChannel
    /\ channels = <<>>
    /\ chanLog = <<>>
    /\ cbLog = <<>>
    /\ localComments = [c \in Commenters |-> NoComment]
    /\ del = IdleDelete
    /\ cmt = [c \in Commenters |-> IdleComment]
    /\ postsData = <<>>
    /\ fetches = <<>>
    /\ events = [change |-> 0, error |-> 0, refresh |-> 0, failed |-> 0]
    /\ postsBookmark = NULL
    /\ hasMorePosts = TRUE

\* The component before it is mounted, but for its writers.
\* The component before it is mounted, but for its writers and the local store.
InitRefs ==
    /\ InitCore
    /\ fs = [f \in Syncs |-> IdleSync]

InitButWriters ==
    /\ InitRefs
    /\ localDocs = SeededDocs

Init ==
    /\ InitButWriters
    /\ call = [t \in Tasks |-> IdleCall]
    /\ upd = IdleUpdate

\* onMounted: initDatabases, up to its first await (the first createIndex of
\* createIndexes): both handles are set.
InitDatabases ==
    /\ initPc = "unmounted"
    /\ localDb' = "open"
    /\ remoteDb' = "open"
    /\ initPc' = "createIndexes"
    /\ UNCHANGED <<stores, call, indexes, online, coord, fs, posts, view>>

\* likePost(post), up to `await localDb.value.get(post._id)`.
LikePost(t, id) ==
    /\ call[t].pc = "idle"
    /\ localDb # NULL
    /\ call' = [call EXCEPT ![t] = [IdleCall EXCEPT !.op = "likePost", !.pc = "awaitGet",
                                       !.draft = [NoDraft EXCEPT !.id = id],
                                       !.merge = "like"]]
    /\ UNCHANGED <<handles, stores, mount, online, coord, fs, posts, view>>

\* The get of likePost answers; on success putWithRetry(latest, merge) is entered.
LikeGetReturns(t) ==
    LET c == call[t]
        id == c.draft.id
    IN /\ c.pc = "awaitGet"
       /\ c.op = "likePost"
       /\ \/ /\ Exists(localDocs[id])
             /\ LET latest == Fetched(localDocs, id)
                    c1 == [Logged(c, "get", "200") EXCEPT !.budget = DefaultMaxRetry]
                IN call' = [call EXCEPT ![t] =
                               EnterPutWithRetry(c1, localDb, latest, DefaultMaxRetry)]
          \/ /\ ~Exists(localDocs[id])
             /\ call' = [call EXCEPT ![t] =
                            Throw(Logged(c, "get", "404"), [status |-> "404", at |-> Len(c.log) + 1])]
          \/ \E s \in OtherStatuses :
                call' = [call EXCEPT ![t] =
                            Throw(Logged(c, "get", s), [status |-> s, at |-> Len(c.log) + 1])]
       /\ UNCHANGED <<handles, stores, mount, online, coord, fs, posts, view>>

\* A direct call putWithRetry(draft, merge, maxRetry): the draft is the document
\* as the caller holds it (its current fields and _rev), with or without its _id.
PutWithRetryCall(t, id, withId, kind, maxRetry) ==
    LET cur == Fetched(localDocs, id)
        draft == [cur EXCEPT !.id = IF withId THEN id ELSE NoId,
                             !.name = IF kind = "edit" THEN "edited" ELSE @]
        c1 == [IdleCall EXCEPT !.op = "putWithRetry", !.merge = kind,
                               !.draft = draft, !.budget = maxRetry]
    IN /\ call[t].pc = "idle"
       /\ call' = [call EXCEPT ![t] = EnterPutWithRetry(c1, localDb, draft, maxRetry)]
       /\ UNCHANGED <<handles, stores, mount, online, coord, fs, posts, view>>

\* The recursive call made with the budget it was given.
RetryBudget_Same(maxRetry) == maxRetry

\* The budget of the recursive call: putWithRetry(merged, merge, maxRetry - 1).
RetryBudget(maxRetry) == maxRetry - 1

\* putWithRetry awaiting the put without returning its answer.
Returned_NoValue(c, rev) ==
    IF c.op \in CatchingOps
    THEN [c EXCEPT !.pc = "awaitFetchPosts"]
    ELSE [c EXCEPT !.pc = "done", !.outcome = "returned"]

\* What follows a successful putWithRetry in its caller.
Returned(c, rev) ==
    IF c.op \in CatchingOps
    THEN [c EXCEPT !.pc = "awaitFetchPosts", !.result = rev]
    ELSE IF c.op \in MediaOps
    THEN [c EXCEPT !.pc = "done", !.outcome = "completed", !.result = rev]
    ELSE [c EXCEPT !.pc = "done", !.outcome = "returned", !.result = rev]

\* The catch block of putWithRetry for an error of the given status.
Caught(c, status) ==
    LET c1 == Logged(c, "put", status)
    IN IF RetryTaken(status, c.maxRetry)
       THEN [c1 EXCEPT !.pc = "awaitRetryGet"]
       ELSE Throw(c1, [status |-> status, at |-> Len(c1.log)])

\* `await localDb.value.put(draft)` answers.
PutReturns(t) ==
    LET c == call[t]
    IN /\ c.pc = "awaitPut"
       /\ \/ /\ PutAccepted(localDocs, c.draft)
             /\ localDocs' = AfterPut(localDocs, c.draft, t)
             /\ call' = [call EXCEPT ![t] =
                            Returned(Logged(c, "put", "201"), Rev(localDocs'[c.draft.id]))]
          \/ /\ c.draft.id # NoId
             /\ ~PutAccepted(localDocs, c.draft)
             /\ call' = [call EXCEPT ![t] = Caught(c, "409")]
             /\ UNCHANGED localDocs
          \/ /\ c.draft.id = NoId   \* the store refuses a document without _id
             /\ call' = [call EXCEPT ![t] = Caught(c, "412")]
             /\ UNCHANGED localDocs
          \/ /\ \E s \in OtherStatuses : call' = [call EXCEPT ![t] = Caught(c, s)]
             /\ UNCHANGED localDocs
       /\ PagerAfter(call'[t].pc = "awaitFetchPosts")
       /\ UNCHANGED <<handles, remoteDocs, mount, online, coord, fs, posts, postsData, fetches,
                      events>>

\* `await localDb.value.get(draft._id)` of the retry path answers; on success
\* the merged draft carries latest's _id and _rev and putWithRetry recurses.
RetryGetReturns(t) ==
    LET c == call[t]
        id == c.draft.id
    IN /\ c.pc = "awaitRetryGet"
       /\ \/ /\ Exists(localDocs[id])
             /\ LET latest == Fetched(localDocs, id)
                    merged == [Merge(c.merge, latest) EXCEPT !.id = latest.id,
                                                             !.rev = latest.rev]
                IN call' = [call EXCEPT ![t] =
                               EnterPutWithRetry(Logged(c, "get", "200"), localDb, merged,
                                                 RetryBudget(c.maxRetry))]
          \/ /\ ~Exists(localDocs[id])
             /\ call' = [call EXCEPT ![t] =
                            Throw(Logged(c, "get", "404"), [status |-> "404", at |-> Len(c.log) + 1])]
          \/ \E s \in OtherStatuses :
                call' = [call EXCEPT ![t] =
                            Throw(Logged(c, "get", s), [status |-> s, at |-> Len(c.log) + 1])]
       /\ UNCHANGED <<handles, stores, mount, online, coord, fs, posts, view>>

\* `await fetchPosts()` at the end of likePost: the find answers from the store
\* as it is, the result is displayed and likePost resumes.
LikeFetchPostsReturns(t) ==
    /\ call[t].pc = "awaitFetchPosts"
    /\ call' = [call EXCEPT ![t] = [@ EXCEPT !.pc = "done", !.outcome = "completed"]]
    /\ Shown(FindPage(localDocs, NULL))
    /\ UNCHANGED <<handles, stores, mount, online, coord, fs, posts, fetches, events>>

\* A writer other than deletePost itself acts on the local store while
\* deletePost runs.
Interleaved(d) ==
    IF d.pc \in {"idle", "done"} THEN d ELSE [d EXCEPT !.alone = FALSE]

\* Another writer of the local store (a revision pulled in by the continuous
\* channel, an edit or a delete of the same document) advances the revision.
OtherWriter(id, kind) ==
    /\ localDb # NULL
    /\ localDocs[id].gen < MaxRev
    /\ ~localDocs[id].deleted
    /\ localDocs' = [localDocs EXCEPT ![id] =
          [gen |-> @.gen + 1, by |-> "other",
           likes |-> IF kind = "like" THEN @.likes + 1 ELSE @.likes,
           name |-> IF kind = "edit" THEN "renamed" ELSE @.name,
           deleted |-> kind = "delete"]]
    /\ del' = Interleaved(del)
    /\ UNCHANGED <<handles, remoteDocs, call, mount, online, coord, fs, localComments, cmt, upd,
                   view>>

NextWriter ==
    \/ InitDatabases
    \/ \E t \in Tasks, id \in ContendedIds : LikePost(t, id)
    \/ \E t \in Tasks : LikeGetReturns(t)
    \/ \E t \in Tasks, id \in ContendedIds, withId \in BOOLEAN,
          kind \in {"like", "edit"}, n \in 0..DefaultMaxRetry :
          PutWithRetryCall(t, id, withId, kind, n)
    \/ \E t \in Tasks : PutReturns(t)
    \/ \E t \in Tasks : RetryGetReturns(t)
    \/ \E t \in Tasks : LikeFetchPostsReturns(t)
    \/ \E id \in ContendedIds, kind \in {"like", "edit", "delete"} : OtherWriter(id, kind)

SpecWriter == Init /\ [][NextWriter]_vars

\* -------------------------------------------------------- sync coordinator
\* The coordinator's state as one value: what stopLiveSync / startLiveSync touch.
Coord == [handler |-> syncHandler, channels |-> channels, log |-> chanLog]

SetCoord(s) ==
    /\ syncHandler' = s.handler
    /\ channels' = s.channels
    /\ chanLog' = s.log

\* stopLiveSync without the cancel: the handle is only cleared.
StopLiveSync_NoCancel(s) == [s EXCEPT !.handler = NoChannel]

\* stopLiveSync: cancel the referenced channel, then clear the handle.
StopLiveSync(s) ==
    IF s.handler # NoChannel
    THEN [handler |-> NoChannel,
          channels |-> [s.channels EXCEPT ![s.handler] = "cancelled"],
          log |-> Append(s.log, [ev |-> "cancel", ch |-> s.handler])]
    ELSE s

\* startLiveSync: return without the handles; else stopLiveSync(), then
\* localDb.sync(remoteDb, {live, retry}) becomes the referenced channel.
StartLiveSync(s, ldb, rdb) ==
    IF ldb = NULL \/ rdb = NULL
    THEN s
    ELSE LET s1 == StopLiveSync(s)
             ch == Len(s1.channels) + 1
         IN [handler |-> ch,
             channels |-> Append(s1.channels, "active"),
             log |-> Append(s1.log, [ev |-> "create", ch |-> ch])]

Active(chs) == {c \in 1..Len(chs) : chs[c] = "active"}

\* The watcher's job is flushed at the end of the task that assigned isOnline,
\* before the next task (a store answer, a user event) starts.
NoJobQueued == ~watchQueued

\* One createIndex of createIndexes answers. After the last one initDatabases
\* calls startLiveSync, whose body runs to its end before the await suspends.
CreateIndexReturns ==
    /\ initPc = "createIndexes"
    /\ NoJobQueued
    /\ indexes' = indexes + 1
    /\ IF indexes + 1 = NumIndexes
       THEN /\ initPc' = "awaitStartLiveSync"
            /\ SetCoord(StartLiveSync(Coord, localDb, remoteDb))
       ELSE UNCHANGED <<initPc, coord>>
    /\ UNCHANGED <<handles, stores, call, online, fs, posts, view>>

\* A createIndex rejects: createIndexes, initDatabases and the onMounted hook
\* reject in turn (nothing catches), and the rest of initDatabases never runs.
CreateIndexFails ==
    /\ initPc = "createIndexes"
    /\ NoJobQueued
    /\ initPc' = "failed"
    /\ UNCHANGED <<handles, stores, call, indexes, online, coord, fs, posts, view>>

\* `await startLiveSync()` resumes: fetchPosts() is called and awaits its find.
InitStartLiveSyncReturns ==
    /\ initPc = "awaitStartLiveSync"
    /\ NoJobQueued
    /\ initPc' = "awaitFetchPosts"
    /\ PagerReset
    /\ UNCHANGED <<handles, stores, call, indexes, online, coord, fs, posts, postsData, fetches,
                   events>>

\* `await fetchPosts()` resumes (its find answered from the store as it is and
\* the result is displayed): initDatabases is over.
InitFetchPostsReturns ==
    /\ initPc = "awaitFetchPosts"
    /\ NoJobQueued
    /\ initPc' = "done"
    /\ Shown(FindPage(localDocs, NULL))
    /\ UNCHANGED <<handles, stores, call, indexes, online, coord, fs, posts, fetches, events>>

\* The user flips the online checkbox (v-model="isOnline"): the assignment
\* queues the watcher's job. The checkbox exists once the component is mounted.
ToggleOnline ==
    /\ initPc # "unmounted"
    /\ NoJobQueued
    /\ toggles < MaxToggles
    /\ toggles' = toggles + 1
    /\ isOnline' = ~isOnline
    /\ watchQueued' = TRUE
    /\ UNCHANGED <<handles, stores, call, mount, watchSeen, cbLog, coord, fs, posts, view>>

\* The callback with its test inverted.
WatcherCallback_Inverted(s, v, ldb, rdb) ==
    IF v THEN StopLiveSync(s) ELSE StartLiveSync(s, ldb, rdb)

\* The callback without its else branch: going offline does nothing.
WatcherCallback_OnlyStart(s, v, ldb, rdb) ==
    IF v THEN StartLiveSync(s, ldb, rdb) ELSE s

\* The callback of watch(isOnline): startLiveSync when v, else stopLiveSync.
WatcherCallback(s, v, ldb, rdb) ==
    IF v THEN StartLiveSync(s, ldb, rdb) ELSE StopLiveSync(s)

\* The queued watcher job runs: the callback is invoked iff the value differs
\* from the one the watcher last ran with.
WatcherRuns ==
    /\ watchQueued
    /\ watchQueued' = FALSE
    /\ IF isOnline # watchSeen
       THEN /\ SetCoord(WatcherCallback(Coord, isOnline, localDb, remoteDb))
            /\ watchSeen' = isOnline
            /\ cbLog' = Append(cbLog, [v |-> isOnline,
                                       activeBefore |-> Cardinality(Active(channels))])
       ELSE UNCHANGED <<coord, watchSeen, cbLog>>
    /\ UNCHANGED <<handles, stores, call, mount, isOnline, toggles, fs, posts, view>>

NextChannel ==
    \/ InitDatabases
    \/ CreateIndexReturns
    \/ CreateIndexFails
    \/ InitStartLiveSyncReturns
    \/ InitFetchPostsReturns
    \/ ToggleOnline
    \/ WatcherRuns

SpecChannel == Init /\ [][NextChannel]_vars

\* ------------------------------------------------------------ fullSyncOnce
\* Revision a wins over revision b: the higher generation, and between two
\* revisions of one generation the store's fixed order (here: the remote writer's).
Beats(a, b) == a.gen > b.gen \/ (a.gen = b.gen /\ a.by = "remote" /\ b.by # "remote")

\* replicate(source, target) that only updates the documents the target holds.
Outstanding_KnownOnly(source, target, id) ==
    target[id].gen > 0 /\ Beats(source[id], target[id])

\* PouchDB.replicate(source, target) has this document still to transfer.
Outstanding(source, target, id) == Beats(source[id], target[id])

\* The documents source holds in a revision target lacks.
Ahead(source, target) == {id \in DocIds : Beats(source[id], target[id])}

\* The legs in the reverse order: pull first, then push.
LegAfter_PullFirst(pc) ==
    CASE pc = "start" -> "pull"
      [] pc = "pull" -> "push"
      [] pc = "push" -> "awaitFetchPosts"

\* The step that follows a step of the try block: push, then pull, then fetchPosts.
LegAfter(pc) ==
    CASE pc = "start" -> "push"
      [] pc = "push" -> "pull"
      [] pc = "pull" -> "awaitFetchPosts"

SyncLogged(r, ev) == [r EXCEPT !.log = Append(@, ev)]

\* A leg's failure handled as in the component's earlier version: logged inside
\* the leg, and the following step runs all the same.
LegFailed_Continues(r) ==
    [SyncLogged(SyncLogged(r, <<r.pc, "failed">>), <<LegAfter(r.pc), "start">>)
        EXCEPT !.pc = LegAfter(r.pc)]

\* A leg rejects: the catch block logs the error and fullSyncOnce returns.
LegFailed(r) ==
    [SyncLogged(r, <<r.pc, "failed">>) EXCEPT !.pc = "done", !.outcome = "logged"]

\* fullSyncOnce (the "Sync manuel" button, disabled while offline), up to the
\* await of the first replicate.
FullSyncOnce(f) ==
    /\ fs[f].pc = "idle"
    /\ initPc # "unmounted"
    /\ isOnline
    /\ localDb # NULL /\ remoteDb # NULL
    /\ fs' = [fs EXCEPT ![f] =
          [SyncLogged(@, <<LegAfter("start"), "start">>)
              EXCEPT !.pc = LegAfter("start"),
                     !.atStart = [push |-> Ahead(localDocs, remoteDocs),
                                  pull |-> Ahead(remoteDocs, localDocs)]]]
    /\ UNCHANGED <<handles, stores, call, mount, online, coord, posts, view>>

\* The running leg transfers one outstanding document to its target.
ReplicateDoc(f, id) ==
    /\ fs[f].pc \in {"push", "pull"}
    /\ IF fs[f].pc = "push"
       THEN /\ Outstanding(localDocs, remoteDocs, id)
            /\ remoteDocs' = [remoteDocs EXCEPT ![id] = localDocs[id]]
            /\ UNCHANGED localDocs
       ELSE /\ Outstanding(remoteDocs, localDocs, id)
            /\ localDocs' = [localDocs EXCEPT ![id] = remoteDocs[id]]
            /\ UNCHANGED remoteDocs
    /\ fs' = [fs EXCEPT ![f].moved = @ \cup
          {[leg |-> fs[f].pc, id |-> id,
            rev |-> Rev(IF fs[f].pc = "push" THEN localDocs[id] ELSE remoteDocs[id])]},
                         ![f].writes[fs[f].pc] = @ + 1]
    /\ UNCHANGED <<handles, call, mount, online, coord, posts, view>>

\* The running leg resolves (nothing is left to transfer): the next step of the
\* try block starts.
LegCompletes(f) ==
    LET r == fs[f]
    IN /\ r.pc \in {"push", "pull"}
       /\ \A id \in DocIds :
             IF r.pc = "push" THEN ~Outstanding(localDocs, remoteDocs, id)
                              ELSE ~Outstanding(remoteDocs, localDocs, id)
       /\ fs' = [fs EXCEPT ![f] =
             [SyncLogged(SyncLogged(r, <<r.pc, "done">>), <<LegAfter(r.pc), "start">>)
                 EXCEPT !.pc = LegAfter(r.pc)]]
       /\ PagerAfter(fs'[f].pc = "awaitFetchPosts")
       /\ UNCHANGED <<handles, stores, call, mount, online, coord, posts, postsData, fetches,
                      events>>

\* The running leg rejects (transport or remote-store error).
LegFails(f) ==
    /\ fs[f].pc \in {"push", "pull"}
    /\ fs' = [fs EXCEPT ![f] = LegFailed(@)]
    /\ PagerAfter(fs'[f].pc = "awaitFetchPosts")
    /\ UNCHANGED <<handles, stores, call, mount, online, coord, posts, postsData, fetches,
                   events>>

\* `await fetchPosts()` of fullSyncOnce resumes: its find answered from the
\* store as it is and the result is displayed.
SyncFetchPostsReturns(f) ==
    /\ fs[f].pc = "awaitFetchPosts"
    /\ fs' = [fs EXCEPT ![f] =
          [SyncLogged(@, <<"awaitFetchPosts", "done">>)
              EXCEPT !.pc = "done", !.outcome = "completed"]]
    /\ Shown(FindPage(localDocs, NULL))
    /\ UNCHANGED <<handles, stores, call, mount, online, coord, posts, fetches, events>>

\* The generation up to which the environment writes a document.
RevBound(id) == IF id \in SeededIds THEN MaxRev ELSE MaxNewRev

\* A store write by somebody else falls into a running fullSyncOnce.
Disturbed(r) ==
    IF r.pc \in {"push", "pull", "awaitFetchPosts"} THEN [r EXCEPT !.quiet = FALSE] ELSE r

\* An application operation that writes through the remote handle.
AppWrite_Remote(id) ==
    /\ remoteDb # NULL
    /\ remoteDocs[id].gen > 0
    /\ remoteDocs[id].gen < RevBound(id)
    /\ remoteDocs' = [remoteDocs EXCEPT ![id] = [@ EXCEPT !.gen = @ + 1, !.by = "app"]]
    /\ fs' = [f \in Syncs |-> Disturbed(fs[f])]
    /\ UNCHANGED <<handles, localDocs, call, mount, online, coord, posts, view>>

\* An application operation writes a new revision of a document the local store
\* holds.
AppWrite(id) ==
    /\ localDb # NULL
    /\ localDocs[id].gen > 0
    /\ localDocs[id].gen < RevBound(id)
    /\ localDocs' = [localDocs EXCEPT ![id] = [@ EXCEPT !.gen = @ + 1, !.by = "app"]]
    /\ fs' = [f \in Syncs |-> Disturbed(fs[f])]
    /\ UNCHANGED <<handles, remoteDocs, call, mount, online, coord, posts, view>>

\* Another client writes a document to the remote store: a new revision of a
\* document the remote holds, or a document of its own making.
RemoteWrite(id) ==
    /\ remoteDocs[id].gen < RevBound(id)
    /\ remoteDocs' = [remoteDocs EXCEPT ![id] =
          [@ EXCEPT !.gen = @ + 1, !.by = "remote", !.likes = @ + 1]]
    /\ fs' = [f \in Syncs |-> Disturbed(fs[f])]
    /\ UNCHANGED <<handles, localDocs, call, mount, online, coord, posts, view>>

NextOneShot ==
    \/ InitDatabases
    \/ \E f \in Syncs : FullSyncOnce(f)
    \/ \E f \in Syncs, id \in DocIds : ReplicateDoc(f, id)
    \/ \E f \in Syncs : LegCompletes(f)
    \/ \E f \in Syncs : LegFails(f)
    \/ \E f \in Syncs : SyncFetchPostsReturns(f)
    \/ \E id \in DocIds : AppWrite(id)
    \/ \E id \in DocIds : RemoteWrite(id)

SpecOneShot == Init /\ [][NextOneShot]_vars

\* ------------------------------------------------- deletePost, addComment
DeleteLogged(d, op, res) == [d EXCEPT !.log = Append(@, [op |-> op, res |-> res])]

\* The catch block of deletePost: the error is logged and deletePost returns.
DeleteCaught(d, op, res) ==
    [DeleteLogged(d, op, res) EXCEPT !.pc = "done", !.outcome = "logged"]

\* The comments a find with selector {type: 'comment', postId} and the limit
\* returns, each with its _rev.
Found(comments, postId) ==
    LET all == {c \in Commenters : Exists(comments[c]) /\ comments[c].postId = postId}
        page == IF Cardinality(all) <= CommentLimit THEN all
                ELSE CHOOSE S \in SUBSET all : Cardinality(S) = CommentLimit
    IN {[c |-> c, rev |-> Rev(comments[c])] : c \in page}

\* deletePost as in the component's first versions: the post alone is removed.
AfterBulkDocs_NoCascade(comments, found) == comments

\* bulkDocs(docs.map(c => ({ ...c, _deleted: true }))): each document whose
\* _rev is the stored one becomes a tombstone; the others are refused one by
\* one, in the answer's entries, which deletePost does not read.
AfterBulkDocs(comments, found) ==
    [c \in Commenters |->
        IF [c |-> c, rev |-> Rev(comments[c])] \in found
        THEN [comments[c] EXCEPT !.gen = @ + 1, !.by = "delete", !.deleted = TRUE]
        ELSE comments[c]]

\* A remove that deletes whatever revision is stored.
RemoveAccepted_AnyRev(docs, id, rev) == Exists(docs[id])

\* remove(id, rev) is accepted iff rev is the revision of the stored document.
RemoveAccepted(docs, id, rev) == Exists(docs[id]) /\ rev = Rev(docs[id])

\* The "Supprimer" button of a displayed post: deletePost(post._id, post._rev),
\* up to `await localDb.value.remove(id, rev)`.
DeletePost(i) ==
    /\ del.pc = "idle"
    /\ localDb # NULL
    /\ i \in 1..Len(postsData)
    /\ del' = [IdleDelete EXCEPT !.pc = "awaitRemove", !.id = postsData[i].id,
                                 !.rev = postsData[i].rev]
    /\ UNCHANGED <<handles, stores, call, mount, online, coord, fs, localComments, cmt, upd, view>>

\* remove(id, rev) answers: accepted iff rev is the stored revision; then the
\* find of the post's comments is issued.
RemoveReturns ==
    /\ del.pc = "awaitRemove"
    /\ \/ /\ RemoveAccepted(localDocs, del.id, del.rev)
          /\ localDocs' = [localDocs EXCEPT ![del.id] =
                [@ EXCEPT !.gen = @ + 1, !.by = "delete", !.deleted = TRUE]]
          /\ del' = [DeleteLogged(del, "remove", "200") EXCEPT !.pc = "awaitFind"]
       \/ /\ ~RemoveAccepted(localDocs, del.id, del.rev)
          /\ del' = DeleteCaught(del, "remove", "409")
          /\ UNCHANGED localDocs
       \/ /\ \E s \in OtherStatuses : del' = DeleteCaught(del, "remove", s)
          /\ UNCHANGED localDocs
    /\ UNCHANGED <<handles, remoteDocs, call, mount, online, coord, fs, localComments, cmt, upd,
                   view>>

\* The find of the comments answers: with comments found bulkDocs is issued,
\* with none deletePost goes on to fetchPosts().
DeleteFindReturns ==
    /\ del.pc = "awaitFind"
    /\ \/ LET found == Found(localComments, del.id)
          IN del' = [DeleteLogged(del, "find", "200")
                        EXCEPT !.found = found,
                               !.pc = IF found # {} THEN "awaitBulkDocs"
                                      ELSE "awaitFetchPosts"]
       \/ \E s \in OtherStatuses : del' = DeleteCaught(del, "find", s)
    /\ UNCHANGED <<handles, stores, call, mount, online, coord, fs, localComments, cmt, upd, view>>

\* bulkDocs answers; deletePost goes on to fetchPosts().
BulkDocsReturns ==
    /\ del.pc = "awaitBulkDocs"
    /\ \/ /\ localComments' = AfterBulkDocs(localComments, del.found)
          /\ del' = [DeleteLogged(del, "bulkDocs", "201") EXCEPT !.pc = "awaitFetchPosts"]
       \/ /\ \E s \in OtherStatuses : del' = DeleteCaught(del, "bulkDocs", s)
          /\ UNCHANGED localComments
    /\ PagerAfter(del'.pc = "awaitFetchPosts")
    /\ UNCHANGED <<handles, stores, call, mount, online, coord, fs, cmt, upd, postsData,
                   fetches, events>>

\* `await fetchPosts()` of deletePost resumes: its find answered from the store
\* as it is and the result is displayed.
DeleteFetchPostsReturns ==
    /\ del.pc = "awaitFetchPosts"
    /\ del' = [del EXCEPT !.pc = "done", !.outcome = "completed"]
    /\ Shown(FindPage(localDocs, NULL))
    /\ UNCHANGED <<handles, stores, call, mount, online, coord, fs, localComments, cmt, upd,
                   fetches, events>>

\* The comment form of a displayed post is sent: addComment(post._id), up to
\* `await localDb.value.put(doc)`.
AddComment(t, i) ==
    /\ cmt[t].pc = "idle"
    /\ localDb # NULL
    /\ i \in 1..Len(postsData)
    /\ cmt' = [cmt EXCEPT ![t] = [IdleComment EXCEPT !.pc = "awaitPut",
                                                     !.postId = postsData[i].id]]
    /\ UNCHANGED <<handles, stores, call, mount, online, coord, fs, localComments, del, upd, view>>

\* The put of the comment answers (its _id is new, no conflict is possible);
\* addComment goes on to fetchComments(postId).
CommentPutReturns(t) ==
    /\ cmt[t].pc = "awaitPut"
    /\ \/ /\ localComments' = [localComments EXCEPT ![t] =
                [gen |-> 1, by |-> t, postId |-> cmt[t].postId, text |-> "new",
                 deleted |-> FALSE]]
          /\ cmt' = [cmt EXCEPT ![t].pc = "awaitFetchComments"]
          /\ del' = Interleaved(del)
       \/ /\ \E s \in OtherStatuses :
                cmt' = [cmt EXCEPT ![t].pc = "done", ![t].outcome = "logged"]
          /\ UNCHANGED <<localComments, del>>
    /\ UNCHANGED <<handles, stores, call, mount, online, coord, fs, upd, view>>

\* `await fetchComments(postId)` resumes (fetchComments catches its own errors).
FetchCommentsReturns(t) ==
    /\ cmt[t].pc = "awaitFetchComments"
    /\ cmt' = [cmt EXCEPT ![t].pc = "done", ![t].outcome = "completed"]
    /\ UNCHANGED <<handles, stores, call, mount, online, coord, fs, localComments, del, upd, view>>

\* A comment of a post arrives through replication: another client's
\* addComment minted its id.
CommentArrives(t, postId) ==
    /\ localDb # NULL
    /\ initPc = "done"
    /\ cmt[t].pc = "idle"
    /\ localComments[t].gen = 0
    /\ localComments' = [localComments EXCEPT ![t] =
          [gen |-> 1, by |-> "remote", postId |-> postId, text |-> "new",
           deleted |-> FALSE]]
    /\ cmt' = [cmt EXCEPT ![t] = [IdleComment EXCEPT !.pc = "done", !.postId = postId,
                                                     !.outcome = "remote"]]
    /\ del' = Interleaved(del)
    /\ UNCHANGED <<handles, stores, call, mount, online, coord, fs, upd, view>>

UpdateLogged(u, op, res) == [u EXCEPT !.log = Append(@, [op |-> op, res |-> res])]

\* The catch block of updateComment: the error is logged.
UpdateCaught(u, op, res) ==
    [UpdateLogged(u, op, res) EXCEPT !.pc = "done", !.outcome = "logged"]

\* get(commentId) as updateComment holds it.
FetchedComment(comments, c) ==
    [rev |-> Rev(comments[c]), postId |-> comments[c].postId, text |-> comments[c].text]

\* updateComment's merge: (latest) => ({ ...latest, text: doc.text }).
TextMerge(latest) == [latest EXCEPT !.text = "edited"]

\* The "Enregistrer" button of a comment's edit form: updateComment(), up to
\* `await localDb.value.get(commentId)`. The form was opened on a displayed comment.
UpdateComment(c) ==
    /\ upd.pc = "idle"
    /\ localDb # NULL
    /\ localComments[c].gen > 0
    /\ upd' = [IdleUpdate EXCEPT !.pc = "awaitGet", !.c = c]
    /\ UNCHANGED <<handles, stores, call, mount, online, coord, fs, localComments, del, cmt,
                   view>>

\* The get answers (the first one, or the one of putWithRetry's retry path):
\* the text is set on the fetched document and the put is issued.
UpdateGetReturns ==
    /\ upd.pc \in {"awaitGet", "awaitRetryGet"}
    /\ \/ /\ Exists(localComments[upd.c])
          /\ upd' = [UpdateLogged(upd, "get", "200")
                        EXCEPT !.pc = "awaitPut",
                               !.draft = TextMerge(FetchedComment(localComments, upd.c)),
                               !.maxRetry = IF upd.pc = "awaitGet" THEN DefaultMaxRetry
                                            ELSE RetryBudget(upd.maxRetry)]
       \/ /\ ~Exists(localComments[upd.c])
          /\ upd' = UpdateCaught(upd, "get", "404")
       \/ \E s \in OtherStatuses : upd' = UpdateCaught(upd, "get", s)
    /\ UNCHANGED <<handles, stores, call, mount, online, coord, fs, localComments, del, cmt,
                   view>>

\* The put of putWithRetry answers: accepted iff the draft's _rev is the stored
\* one; a conflict is retried while budget remains.
UpdatePutReturns ==
    /\ upd.pc = "awaitPut"
    /\ \/ /\ upd.draft.rev = Rev(localComments[upd.c])
          /\ localComments' = [localComments EXCEPT ![upd.c] =
                [gen |-> @.gen + 1, by |-> "edit", postId |-> upd.draft.postId,
                 text |-> upd.draft.text, deleted |-> FALSE]]
          /\ upd' = [UpdateLogged(upd, "put", "201") EXCEPT !.pc = "awaitFetchComments"]
          /\ del' = Interleaved(del)
       \/ /\ upd.draft.rev # Rev(localComments[upd.c])
          /\ upd' = IF RetryTaken("409", upd.maxRetry)
                    THEN [UpdateLogged(upd, "put", "409") EXCEPT !.pc = "awaitRetryGet"]
                    ELSE UpdateCaught(upd, "put", "409")
          /\ UNCHANGED <<localComments, del>>
       \/ /\ \E s \in OtherStatuses : upd' = UpdateCaught(upd, "put", s)
          /\ UNCHANGED <<localComments, del>>
    /\ UNCHANGED <<handles, stores, call, mount, online, coord, fs, cmt, view>>

\* `await fetchComments(postId)` of updateComment resumes.
UpdateFetchCommentsReturns ==
    /\ upd.pc = "awaitFetchComments"
    /\ upd' = [upd EXCEPT !.pc = "done", !.outcome = "completed"]
    /\ UNCHANGED <<handles, stores, call, mount, online, coord, fs, localComments, del, cmt,
                   view>>

NextPosts ==
    \/ InitDatabases
    \/ CreateIndexReturns
    \/ InitStartLiveSyncReturns
    \/ InitFetchPostsReturns
    \/ \E i \in 1..Len(PostOrder) : DeletePost(i)
    \/ RemoveReturns
    \/ DeleteFindReturns
    \/ BulkDocsReturns
    \/ DeleteFetchPostsReturns
    \/ \E t \in Commenters, i \in 1..Len(PostOrder) : AddComment(t, i)
    \/ \E t \in Commenters : CommentPutReturns(t)
    \/ \E t \in Commenters : FetchCommentsReturns(t)
    \/ \E t \in Commenters, id \in ContendedIds : CommentArrives(t, id)
    \/ \E c \in Commenters : UpdateComment(c)
    \/ UpdateGetReturns
    \/ UpdatePutReturns
    \/ UpdateFetchCommentsReturns
    \/ \E id \in ContendedIds, kind \in {"like", "edit", "delete"} : OtherWriter(id, kind)

SpecPosts == Init /\ [][NextPosts]_vars

\* ------------------------------------------- the channel's events, refreshes
PendingFind ==
    [op |-> "fetchPosts", pc |-> "awaitFind", bookmark |-> NULL, docs |-> <<>>, next |-> NULL]

\* fetchPosts(), up to `await localDb.value.find(...)`: one more find is pending.
FetchPosts(fq, ldb) == IF ldb = NULL THEN fq ELSE Append(fq, PendingFind)

\* A change handler that leaves the refresh to the one already running.
OnChange_Coalesced(fq, ldb) == IF fq # <<>> THEN fq ELSE FetchPosts(fq, ldb)

\* The channel's change handler: async () => { await fetchPosts() }.
OnChange(fq, ldb) == FetchPosts(fq, ldb)

\* An error handler that gives the channel up.
OnError_Stop(s) == StopLiveSync(s)

\* The channel's error handler: (err) => console.error('Sync error:', err).
OnError(s) == s

\* A channel that only pulls: sync without its push direction.
ChannelChange_PullOnly(ch, id) ==
    /\ ch \in Active(channels)
    /\ NoJobQueued
    /\ Len(fetches) < MaxFetches
    /\ Outstanding(remoteDocs, localDocs, id)
    /\ localDocs' = [localDocs EXCEPT ![id] = remoteDocs[id]]
    /\ del' = Interleaved(del)
    /\ fetches' = OnChange(fetches, localDb)
    /\ PagerAfter(fetches' # fetches)
    /\ events' = [events EXCEPT !.change = @ + 1,
                                !.refresh = @ + Len(fetches') - Len(fetches)]
    /\ fs' = [f \in Syncs |-> Disturbed(fs[f])]
    /\ UNCHANGED <<handles, remoteDocs, call, mount, online, coord, localComments, cmt, upd,
                   postsData>>

\* The active channel transfers a document (in either direction) and emits a
\* change event: the handler runs.
ChannelChange(ch, id) ==
    /\ ch \in Active(channels)
    /\ NoJobQueued
    /\ Len(fetches) < MaxFetches
    /\ \/ /\ Outstanding(remoteDocs, localDocs, id)
          /\ localDocs' = [localDocs EXCEPT ![id] = remoteDocs[id]]
          /\ del' = Interleaved(del)
          /\ UNCHANGED remoteDocs
       \/ /\ Outstanding(localDocs, remoteDocs, id)
          /\ remoteDocs' = [remoteDocs EXCEPT ![id] = localDocs[id]]
          /\ UNCHANGED <<localDocs, del>>
    /\ fetches' = OnChange(fetches, localDb)
    /\ PagerAfter(fetches' # fetches)
    /\ events' = [events EXCEPT !.change = @ + 1,
                                !.refresh = @ + Len(fetches') - Len(fetches)]
    /\ fs' = [f \in Syncs |-> Disturbed(fs[f])]
    /\ UNCHANGED <<handles, call, mount, online, coord, localComments, cmt, upd, postsData>>

\* The active channel emits an error event: the handler runs.
ChannelError(ch) ==
    /\ ch \in Active(channels)
    /\ NoJobQueued
    /\ events.error < MaxErrors
    /\ SetCoord(OnError(Coord))
    /\ events' = [events EXCEPT !.error = @ + 1]
    /\ UNCHANGED <<handles, stores, call, mount, online, fs, posts, postsData, fetches, pager>>

\* The put of an operation on a post (addPost, updatePost, likePost) is
\* accepted and the operation calls fetchPosts().
PutThenFetchPosts(id) ==
    /\ localDb # NULL
    /\ NoJobQueued
    /\ Len(fetches) < MaxFetches
    /\ localDocs[id].gen < RevBound(id)
    /\ ~localDocs[id].deleted
    /\ localDocs' = [localDocs EXCEPT ![id] = [@ EXCEPT !.gen = @ + 1, !.by = "app"]]
    /\ fetches' = FetchPosts(fetches, localDb)
    /\ PagerReset
    /\ del' = Interleaved(del)
    /\ fs' = [f \in Syncs |-> Disturbed(fs[f])]
    /\ UNCHANGED <<handles, remoteDocs, call, mount, online, coord, localComments, cmt, upd,
                   postsData, events>>

\* The store evaluates a pending find of fetchPosts against its contents.
FindAnswers(i) ==
    /\ i \in 1..Len(fetches)
    /\ fetches[i].pc = "awaitFind"
    /\ LET res == FindPage(localDocs, fetches[i].bookmark)
       IN fetches' = [fetches EXCEPT ![i] =
             [@ EXCEPT !.pc = "found", !.docs = res.docs, !.next = res.bookmark]]
    /\ UNCHANGED <<handles, stores, call, mount, online, coord, fs, posts, postsData, events,
                   pager>>

Without(fq, i) == SubSeq(fq, 1, i - 1) \o SubSeq(fq, i + 1, Len(fq))

\* `await localDb.value.find(...)` of a fetchPosts resumes with the result:
\* postsData.value = res.docs.
FetchDelivers(i) ==
    /\ i \in 1..Len(fetches)
    /\ fetches[i].pc = "found"
    /\ NoJobQueued
    /\ LET res == [docs |-> fetches[i].docs, bookmark |-> fetches[i].next]
       IN IF fetches[i].op = "fetchPosts" THEN Shown(res) ELSE Appended(res)
    /\ fetches' = Without(fetches, i)
    /\ UNCHANGED <<handles, stores, call, mount, online, coord, fs, posts, events>>

\* The find of a fetchPosts rejects: the catch block logs the error and
\* postsData stays as it was.
FindFails(i) ==
    /\ i \in 1..Len(fetches)
    /\ fetches[i].pc = "awaitFind"
    /\ events.failed < MaxErrors
    /\ NoJobQueued
    /\ fetches' = Without(fetches, i)
    /\ events' = [events EXCEPT !.failed = @ + 1]
    /\ UNCHANGED <<handles, stores, call, mount, online, coord, fs, posts, postsData, pager>>

\* The "Rafraîchir" button (or a change of the search term or of the sort
\* order): fetchPosts(), up to the await of its find.
Refresh ==
    /\ localDb # NULL
    /\ Len(fetches) < MaxFetches
    /\ fetches' = FetchPosts(fetches, localDb)
    /\ PagerReset
    /\ UNCHANGED <<handles, stores, call, mount, online, coord, fs, posts, postsData, events>>

\* The find loadMorePosts issues: buildPostsQuery(postsBookmark.value).
PendingMore(bookmark) ==
    [op |-> "loadMorePosts", pc |-> "awaitFind", bookmark |-> bookmark, docs |-> <<>>,
     next |-> NULL]

\* The "Afficher les 10 suivants" button, shown under a list that is not
\* empty and enabled while hasMorePosts: loadMorePosts(), up to the await of
\* its find.
LoadMorePosts ==
    /\ localDb # NULL
    /\ hasMorePosts
    /\ postsData # <<>>
    /\ Len(fetches) < MaxFetches
    /\ fetches' = Append(fetches, PendingMore(postsBookmark))
    /\ UNCHANGED <<handles, stores, call, mount, online, coord, fs, posts, postsData, events,
                   pager>>

\* fetchPosts and loadMorePosts over a store nobody writes.
NextPaging ==
    \/ InitDatabases
    \/ CreateIndexReturns
    \/ InitStartLiveSyncReturns
    \/ InitFetchPostsReturns
    \/ Refresh
    \/ LoadMorePosts
    \/ \E i \in 1..MaxFetches : FindAnswers(i)
    \/ \E i \in 1..MaxFetches : FetchDelivers(i)

SpecPaging == Init /\ [][NextPaging]_vars

\* A local store that holds the n earliest posts.
PagedIds == {PostOrder[i] : i \in 1..Len(PostOrder)}
PagedDocs(n) ==
    [id \in PagedIds |-> IF Place(id) > Len(PostOrder) - n THEN InitialDoc ELSE AbsentDoc]

InitPaged ==
    /\ InitRefs
    /\ \E n \in 0..Len(PostOrder) : localDocs = PagedDocs(n)
    /\ call = [t \in Tasks |-> IdleCall]
    /\ upd = IdleUpdate

\* No operation is running: initDatabases has returned and no find is pending.
Quiet == initPc = "done" /\ fetches = <<>>

\* fetchPosts and loadMorePosts invoked one at a time, each after the one
\* before has returned, over a store nobody writes.
NextPaged ==
    \/ InitDatabases
    \/ CreateIndexReturns
    \/ InitStartLiveSyncReturns
    \/ InitFetchPostsReturns
    \/ Quiet /\ Refresh
    \/ Quiet /\ LoadMorePosts
    \/ \E i \in 1..MaxFetches : FindAnswers(i)
    \/ \E i \in 1..MaxFetches : FetchDelivers(i)

SpecPaged == InitPaged /\ [][NextPaged]_vars

NextRefresh ==
    \/ InitDatabases
    \/ CreateIndexReturns
    \/ InitStartLiveSyncReturns
    \/ InitFetchPostsReturns
    \/ \E ch \in 1..Len(channels), id \in ContendedIds : ChannelChange(ch, id)
    \/ \E ch \in 1..Len(channels) : ChannelError(ch)
    \/ \E id \in ContendedIds : PutThenFetchPosts(id)
    \/ \E id \in ContendedIds : RemoteWrite(id)
    \/ \E i \in 1..MaxFetches : FindAnswers(i)
    \/ \E i \in 1..MaxFetches : FetchDelivers(i)
    \/ \E i \in 1..MaxFetches : FindFails(i)

SpecRefresh == Init /\ [][NextRefresh]_vars

\* The continuous channel between writers of both stores, with no failure.
NextLive ==
    \/ InitDatabases
    \/ CreateIndexReturns
    \/ InitStartLiveSyncReturns
    \/ InitFetchPostsReturns
    \/ \E ch \in 1..Len(channels), id \in ContendedIds : ChannelChange(ch, id)
    \/ \E id \in ContendedIds : PutThenFetchPosts(id)
    \/ \E id \in ContendedIds : RemoteWrite(id)
    \/ \E i \in 1..MaxFetches : FindAnswers(i)
    \/ \E i \in 1..MaxFetches : FetchDelivers(i)

\* The scheduling the runtime gives: the awaited calls of initDatabases
\* return, a pending find returns and its continuation runs, and a live
\* channel (live: true, retry: true) transfers what is outstanding.
FairLive ==
    /\ WF_vars(InitDatabases)
    /\ WF_vars(CreateIndexReturns)
    /\ WF_vars(InitStartLiveSyncReturns)
    /\ WF_vars(InitFetchPostsReturns)
    /\ WF_vars(\E i \in 1..MaxFetches : FindAnswers(i))
    /\ WF_vars(\E i \in 1..MaxFetches : FetchDelivers(i))
    /\ WF_vars(\E ch \in 1..Len(channels), id \in ContendedIds : ChannelChange(ch, id))

SpecLive == Init /\ [][NextLive]_vars /\ FairLive

\* ------------------------------- application operations and replication
\* The writes of the application to a post together with the three ways a
\* document travels: the continuous channel, fullSyncOnce, and the remote's
\* other clients. The finds the change handler issues stay pending here (their
\* answers touch postsData alone).
NextStores ==
    \/ InitDatabases
    \/ CreateIndexReturns
    \/ InitStartLiveSyncReturns
    \/ InitFetchPostsReturns
    \/ ToggleOnline
    \/ WatcherRuns
    \/ \E ch \in 1..Len(channels), id \in ContendedIds : ChannelChange(ch, id)
    \/ \E f \in Syncs : FullSyncOnce(f)
    \/ \E f \in Syncs, id \in ContendedIds : ReplicateDoc(f, id)
    \/ \E f \in Syncs : LegCompletes(f)
    \/ \E f \in Syncs : SyncFetchPostsReturns(f)
    \/ \E id \in ContendedIds : AppWrite(id)
    \/ \E id \in ContendedIds : RemoteWrite(id)

SpecStores == Init /\ [][NextStores]_vars

\* ------------------------------------------------- updatePost, startEdit
\* startEdit(post) on the i-th displayed post: editingPost becomes a copy of
\* the post as the list shows it. One form is open at a time.
StartEdit(t, i) ==
    /\ call[t].pc = "idle"
    /\ \A u \in Tasks : call[u].op = "updatePost" => call[u].pc = "done"
    /\ i <= Len(postsData)
    /\ call' = [call EXCEPT ![t] = [IdleCall EXCEPT !.op = "updatePost", !.pc = "editing",
                                                   !.draft = postsData[i], !.merge = "edit"]]
    /\ UNCHANGED <<handles, stores, mount, online, coord, fs, posts, view>>

\* The "Enregistrer" button of the post form: updatePost(), up to the put of
\* putWithRetry. The draft is the copy startEdit made, with the form's fields.
UpdatePost(t) ==
    LET c == call[t]
        doc == [c.draft EXCEPT !.name = "edited"]
    IN /\ c.pc = "editing"
       /\ localDb # NULL
       /\ call' = [call EXCEPT ![t] =
                      EnterPutWithRetry([c EXCEPT !.budget = DefaultMaxRetry], localDb, doc,
                                        DefaultMaxRetry)]
       /\ UNCHANGED <<handles, stores, mount, online, coord, fs, posts, view>>

\* A revision of a comment written on another client arrives through the
\* continuous channel.
CommentRewritten(c) ==
    /\ localDb # NULL
    /\ Exists(localComments[c])
    /\ localComments[c].gen <= MaxNewRev
    /\ localComments' = [localComments EXCEPT ![c] =
          [@ EXCEPT !.gen = @ + 1, !.by = "remote", !.text = "rewritten"]]
    /\ del' = Interleaved(del)
    /\ UNCHANGED <<handles, stores, call, mount, online, coord, fs, cmt, upd, view>>

\* The writers of an edit: one post form, one likePost, one comment form.
Editor == "t1"
Liker == "t2"
EditedComment == "c1"

NextEdit ==
    \/ InitDatabases
    \/ CreateIndexReturns
    \/ InitStartLiveSyncReturns
    \/ InitFetchPostsReturns
    \/ \E i \in 1..Len(PostOrder) : StartEdit(Editor, i)
    \/ UpdatePost(Editor)
    \/ \E id \in ContendedIds : LikePost(Liker, id)
    \/ LikeGetReturns(Liker)
    \/ \E t \in Tasks : PutReturns(t)
    \/ \E t \in Tasks : RetryGetReturns(t)
    \/ \E t \in Tasks : LikeFetchPostsReturns(t)
    \/ \E id \in ContendedIds, kind \in {"like", "edit", "delete"} : OtherWriter(id, kind)
    \/ \E id \in ContendedIds : CommentArrives(EditedComment, id)
    \/ CommentRewritten(EditedComment)
    \/ UpdateComment(EditedComment)
    \/ UpdateGetReturns
    \/ UpdatePutReturns
    \/ UpdateFetchCommentsReturns

SpecEdit == Init /\ [][NextEdit]_vars

\* ----------------------------------------------- addPost, attachments
\* addPost(), up to `await localDb.value.put(doc)`: a post under an id that
\* uid() just minted, with no _rev and likes 0.
AddPost(t, id) ==
    /\ call[t].pc = "idle"
    /\ localDb # NULL
    /\ localDocs[id].gen = 0
    /\ \A u \in Tasks : call[u].draft.id # id
    /\ call' = [call EXCEPT ![t] =
          [IdleCall EXCEPT !.op = "addPost", !.pc = "awaitPut",
                           !.draft = [id |-> id, rev |-> NoRev, likes |-> 0, name |-> "orig"]]]
    /\ UNCHANGED <<handles, stores, mount, online, coord, fs, posts, view>>

\* addMediaToPost(post, file) / deleteMediaFromPost(post), up to
\* `await localDb.value.get(post._id)`.
MediaOp(t, op, id) ==
    /\ call[t].pc = "idle"
    /\ localDb # NULL
    /\ call' = [call EXCEPT ![t] = [IdleCall EXCEPT !.op = op, !.pc = "awaitGet",
                                                   !.draft = [NoDraft EXCEPT !.id = id]]]
    /\ UNCHANGED <<handles, stores, mount, online, coord, fs, posts, view>>

\* The get answers: putAttachment / removeAttachment is issued with
\* latest._rev; the store writes a revision of the document with the same
\* fields and the attachment added or removed.
MediaGetReturns(t) ==
    LET c == call[t]
        id == c.draft.id
    IN /\ c.pc = "awaitGet"
       /\ c.op \in MediaOps
       /\ \/ /\ Exists(localDocs[id])
             /\ call' = [call EXCEPT ![t] =
                   [Logged(c, "get", "200") EXCEPT !.pc = "awaitPut",
                                                   !.draft = Fetched(localDocs, id)]]
          \/ /\ ~Exists(localDocs[id])
             /\ call' = [call EXCEPT ![t] =
                   Throw(Logged(c, "get", "404"), [status |-> "404", at |-> Len(c.log) + 1])]
       /\ UNCHANGED <<handles, stores, mount, online, coord, fs, posts, view>>

\* The id addPost mints.
NewId == "post:2"

\* The operations of the component that write posts, two at a time, and
\* revisions arriving from other clients.
NextLikes ==
    \/ InitDatabases
    \/ CreateIndexReturns
    \/ InitStartLiveSyncReturns
    \/ InitFetchPostsReturns
    \/ \E t \in Tasks : AddPost(t, NewId)
    \/ \E t \in Tasks, i \in 1..Len(PostOrder) : StartEdit(t, i)
    \/ \E t \in Tasks : UpdatePost(t)
    \/ \E t \in Tasks, id \in ContendedIds : LikePost(t, id)
    \/ \E t \in Tasks : LikeGetReturns(t)
    \/ \E t \in Tasks, op \in MediaOps, id \in ContendedIds : MediaOp(t, op, id)
    \/ \E t \in Tasks : MediaGetReturns(t)
    \/ \E t \in Tasks : PutReturns(t)
    \/ \E t \in Tasks : RetryGetReturns(t)
    \/ \E t \in Tasks : LikeFetchPostsReturns(t)
    \/ \E i \in 1..Len(PostOrder) : AddComment(EditedComment, i)
    \/ CommentPutReturns(EditedComment)
    \/ FetchCommentsReturns(EditedComment)
    \/ \E id \in ContendedIds, kind \in {"like", "delete"} : OtherWriter(id, kind)

SpecLikes == Init /\ [][NextLikes]_vars

\* ------------------------------------- the earlier version: likePost
\* likePost(post) of the earlier version, up to `await localDb.value.get(post._id)`.
EarlierLikePost(t, id) ==
    /\ call[t].pc = "idle"
    /\ localDb # NULL
    /\ call' = [call EXCEPT ![t] = [IdleCall EXCEPT !.op = "earlier.likePost", !.pc = "awaitGet",
                                                   !.draft = [NoDraft EXCEPT !.id = id]]]
    /\ UNCHANGED <<handles, stores, mount, online, coord, fs, posts, view>>

\* The get answers: current.likes is incremented and the put is issued with
\* the revision read; a missing document is logged by the catch block.
EarlierLikeGetReturns(t) ==
    LET c == call[t]
        id == c.draft.id
    IN /\ c.pc = "awaitGet"
       /\ c.op = "earlier.likePost"
       /\ call' = [call EXCEPT ![t] =
             IF Exists(localDocs[id])
             THEN [Logged(c, "get", "200") EXCEPT !.pc = "awaitPut",
                                                  !.draft = LikeMerge(Fetched(localDocs, id))]
             ELSE [Logged(c, "get", "404") EXCEPT !.pc = "done", !.outcome = "logged",
                      !.err = [status |-> "404", at |-> Len(c.log) + 1]]]
       /\ UNCHANGED <<handles, stores, mount, online, coord, fs, posts, view>>

\* A catch block that starts the operation again after a rejected put.
EarlierCaught_Retries(c, status) ==
    [Logged(c, "put", status) EXCEPT !.pc = "awaitGet"]

\* The catch block of likePost: console.error('Erreur likePost :', error).
EarlierCaught(c, status) ==
    [Logged(c, "put", status) EXCEPT !.pc = "done", !.outcome = "logged",
                                     !.err = [status |-> status, at |-> Len(c.log) + 1]]

\* `await localDb.value.put(current)` answers: accepted, fetchData() is called;
\* rejected, the catch block logs.
EarlierLikePutReturns(t) ==
    LET c == call[t]
    IN /\ c.pc = "awaitPut"
       /\ c.op = "earlier.likePost"
       /\ IF PutAccepted(localDocs, c.draft)
          THEN /\ localDocs' = AfterPut(localDocs, c.draft, t)
               /\ call' = [call EXCEPT ![t] =
                     [Logged(c, "put", "201") EXCEPT !.pc = "awaitFetchData",
                                                     !.result = Rev(localDocs'[c.draft.id])]]
          ELSE /\ call' = [call EXCEPT ![t] = EarlierCaught(c, "409")]
               /\ UNCHANGED localDocs
       /\ UNCHANGED <<handles, remoteDocs, mount, online, coord, fs, posts, view>>

\* `await fetchData()` resumes: allDocs answered from the store as it is and
\* every document is displayed.
EarlierFetchDataReturns(t) ==
    /\ call[t].pc = "awaitFetchData"
    /\ call' = [call EXCEPT ![t] = [@ EXCEPT !.pc = "done", !.outcome = "completed"]]
    /\ postsData' = Held(localDocs)
    /\ UNCHANGED <<handles, stores, mount, online, coord, fs, posts, fetches, events, pager>>

\* ------------------------------------------ the earlier version: sync
\* The two createIndex calls of the earlier createIndexes.
EarlierNumIndexes == 2

\* The component of the earlier version before it is mounted: fs is the
\* sequence of the synchronisations started so far.
InitEarlier ==
    /\ InitCore
    /\ fs = <<>>
    /\ localDocs = SeededDocs
    /\ call = [t \in Tasks |-> IdleCall]
    /\ upd = IdleUpdate

\* fullSync(), up to the await of syncToRemote's replicate.
EarlierFullSync(by) == [by |-> by, pc |-> "push", log |-> <<<<"push", "start">>>>]

\* syncFromRemote() called on its own, up to the await of its replicate.
EarlierSyncFromRemote(by) == [by |-> by, pc |-> "pull", log |-> <<<<"pull", "start">>>>]

\* A failed replicate that ends the synchronisation, whichever leg it is.
EarlierLegFailed_Stops(r) ==
    [SyncLogged(r, <<r.pc, "failed">>) EXCEPT !.pc = "done"]

\* A replicate rejects. syncToRemote's catch block logs and syncToRemote
\* returns, so fullSync goes on to syncFromRemote; syncFromRemote's catch block
\* logs and fetchData is skipped.
EarlierLegFailed(r) ==
    IF r.pc = "push"
    THEN [SyncLogged(SyncLogged(r, <<"push", "failed">>), <<"pull", "start">>)
             EXCEPT !.pc = "pull"]
    ELSE [SyncLogged(r, <<"pull", "failed">>) EXCEPT !.pc = "done"]

\* initDatabases returns when the syncFromRemote it awaits has returned.
EarlierInitPcAfter(r) == IF r.by = "mount" /\ r.pc = "done" THEN "done" ELSE initPc

\* One createIndex of createIndexes answers. After the second one initDatabases
\* calls syncFromRemote.
EarlierCreateIndexReturns ==
    /\ initPc = "createIndexes"
    /\ NoJobQueued
    /\ indexes' = indexes + 1
    /\ IF indexes + 1 = EarlierNumIndexes
       THEN /\ initPc' = "awaitSyncFromRemote"
            /\ fs' = Append(fs, EarlierSyncFromRemote("mount"))
       ELSE UNCHANGED <<initPc, fs>>
    /\ UNCHANGED <<handles, stores, call, online, coord, posts, view>>

\* The queued watcher job runs: the callback is invoked iff the value differs
\* from the one the watcher last ran with, and calls fullSync when it is true.
EarlierWatcherRuns ==
    /\ watchQueued
    /\ watchQueued' = FALSE
    /\ IF isOnline # watchSeen
       THEN /\ watchSeen' = isOnline
            /\ cbLog' = Append(cbLog, [v |-> isOnline, activeBefore |-> 0])
            /\ fs' = IF isOnline /\ localDb # NULL /\ remoteDb # NULL
                     THEN Append(fs, EarlierFullSync("watch"))
                     ELSE fs
       ELSE UNCHANGED <<watchSeen, cbLog, fs>>
    /\ UNCHANGED <<handles, stores, call, mount, isOnline, toggles, coord, posts, view>>

\* The sync button (disabled while offline) calls fullSync.
EarlierFullSyncClick ==
    /\ initPc # "unmounted"
    /\ NoJobQueued
    /\ isOnline
    /\ Len(fs) < MaxFullSyncs
    /\ fs' = Append(fs, EarlierFullSync("button"))
    /\ UNCHANGED <<handles, stores, call, mount, online, coord, posts, view>>

\* The running replicate of synchronisation i transfers one document.
EarlierReplicateDoc(i, id) ==
    /\ fs[i].pc \in {"push", "pull"}
    /\ NoJobQueued
    /\ IF fs[i].pc = "push"
       THEN /\ Outstanding(localDocs, remoteDocs, id)
            /\ remoteDocs' = [remoteDocs EXCEPT ![id] = localDocs[id]]
            /\ UNCHANGED localDocs
       ELSE /\ Outstanding(remoteDocs, localDocs, id)
            /\ localDocs' = [localDocs EXCEPT ![id] = remoteDocs[id]]
            /\ UNCHANGED remoteDocs
    /\ UNCHANGED <<handles, call, mount, online, coord, fs, posts, view>>

\* The running replicate resolves (nothing is left to transfer): after the push
\* fullSync calls syncFromRemote, after the pull syncFromRemote calls fetchData.
EarlierLegCompletes(i) ==
    LET r == fs[i]
    IN /\ r.pc \in {"push", "pull"}
       /\ NoJobQueued
       /\ IF r.pc = "push"
          THEN /\ Ahead(localDocs, remoteDocs) = {}
               /\ fs' = [fs EXCEPT ![i] =
                     [SyncLogged(SyncLogged(r, <<"push", "done">>), <<"pull", "start">>)
                         EXCEPT !.pc = "pull"]]
          ELSE /\ Ahead(remoteDocs, localDocs) = {}
               /\ fs' = [fs EXCEPT ![i] =
                     [SyncLogged(SyncLogged(r, <<"pull", "done">>), <<"fetchData", "start">>)
                         EXCEPT !.pc = "fetchData"]]
       /\ UNCHANGED <<handles, stores, call, mount, online, coord, posts, view>>

\* The running replicate rejects.
EarlierLegFails(i) ==
    /\ fs[i].pc \in {"push", "pull"}
    /\ NoJobQueued
    /\ fs' = [fs EXCEPT ![i] = EarlierLegFailed(@)]
    /\ initPc' = EarlierInitPcAfter(fs'[i])
    /\ UNCHANGED <<handles, stores, call, indexes, online, coord, posts, view>>

\* fetchData's allDocs answers from the store as it is: every document is
\* displayed, and syncFromRemote returns.
EarlierSyncFetchDataReturns(i) ==
    /\ fs[i].pc = "fetchData"
    /\ NoJobQueued
    /\ fs' = [fs EXCEPT ![i] = [SyncLogged(@, <<"fetchData", "done">>) EXCEPT !.pc = "done"]]
    /\ initPc' = EarlierInitPcAfter(fs'[i])
    /\ postsData' = Held(localDocs)
    /\ UNCHANGED <<handles, stores, call, indexes, online, coord, posts, fetches, events, pager>>

\* Another client writes a new revision of a document the remote store holds.
EarlierRemoteWrite(id) ==
    /\ remoteDocs[id].gen > 0
    /\ remoteDocs[id].gen <= MaxNewRev
    /\ remoteDocs' = [remoteDocs EXCEPT ![id] =
          [@ EXCEPT !.gen = @ + 1, !.by = "remote", !.likes = @ + 1]]
    /\ UNCHANGED <<handles, localDocs, call, mount, online, coord, fs, posts, view>>

\* initDatabases of the earlier version, to its end.
EarlierMount ==
    \/ InitDatabases
    \/ EarlierCreateIndexReturns
    \/ \E i \in 1..Len(fs), id \in DocIds : EarlierReplicateDoc(i, id)
    \/ \E i \in 1..Len(fs) : EarlierLegCompletes(i)
    \/ \E i \in 1..Len(fs) : EarlierLegFails(i)
    \/ \E i \in 1..Len(fs) : EarlierSyncFetchDataReturns(i)

\* The checkbox bound to isOnline is switched; the switches that start a
\* synchronisation are bounded with the button's clicks.
EarlierToggleOnline ==
    /\ isOnline \/ Len(fs) < MaxFullSyncs
    /\ ToggleOnline

NextEarlierSync ==
    \/ EarlierMount
    \/ EarlierToggleOnline
    \/ EarlierWatcherRuns
    \/ EarlierFullSyncClick
    \/ \E id \in ContendedIds : EarlierRemoteWrite(id)

SpecEarlierSync == InitEarlier /\ [][NextEarlierSync]_vars

NextEarlierLike ==
    \/ EarlierMount
    \/ \E t \in Tasks, id \in ContendedIds : EarlierLikePost(t, id)
    \/ \E t \in Tasks : EarlierLikeGetReturns(t)
    \/ \E t \in Tasks : EarlierLikePutReturns(t)
    \/ \E t \in Tasks : EarlierFetchDataReturns(t)
    \/ \E id \in ContendedIds, kind \in {"like", "edit", "delete"} : OtherWriter(id, kind)
    \/ \E id \in ContendedIds : EarlierRemoteWrite(id)

SpecEarlierLike == InitEarlier /\ [][NextEarlierLike]_vars

\* -------------------------------------------------- the merge functions
\* The documents a merge function may be handed: any stored post, any stored
\* comment, as get() returns them.
PostInputs ==
    [id : DocIds, rev : [gen : 1..MaxRev, by : {"seed", "other"}], likes : 0..MaxRev,
     name : {"orig", "renamed", "edited"}]
CommentInputs ==
    [rev : [gen : 1..MaxRev, by : {"c1", "edit"}], postId : DocIds, text : {"new", "edited"}]

\* One merge function and one document to apply it to: likePost's or
\* updatePost's on a post, or updateComment's on a comment.
InitMerge ==
    /\ InitButWriters
    /\ \/ /\ \E t \in Tasks, d \in PostInputs, kind \in {"like", "edit"} :
                call = [u \in Tasks |->
                           IF u = t THEN [IdleCall EXCEPT !.op = "merge", !.pc = "applyMerge",
                                                          !.draft = d, !.merge = kind]
                           ELSE IdleCall]
          /\ upd = IdleUpdate
       \/ /\ call = [t \in Tasks |-> IdleCall]
          /\ \E d \in CommentInputs :
                upd = [IdleUpdate EXCEPT !.pc = "applyMerge", !.c = "c1", !.draft = d]

\* The value the next application receives: the document, then each result.
Applied(log, d) == IF log = <<>> THEN d ELSE log[Len(log)].res

\* merge(latest) of line 103, applied to the result of the application before.
ApplyMerge(t) ==
    LET c == call[t]
    IN /\ c.pc = "applyMerge"
       /\ Len(c.log) < MaxApply
       /\ call' = [call EXCEPT ![t] = Logged(c, "merge", Merge(c.merge, Applied(c.log, c.draft)))]
       /\ UNCHANGED <<handles, stores, mount, online, coord, fs, posts, view>>

\* updateComment's merge, applied to the result of the application before.
ApplyTextMerge ==
    /\ upd.pc = "applyMerge"
    /\ Len(upd.log) < MaxApply
    /\ upd' = UpdateLogged(upd, "merge", TextMerge(Applied(upd.log, upd.draft)))
    /\ UNCHANGED <<handles, stores, call, mount, online, coord, fs, localComments, del, cmt,
                   view>>

NextMerge ==
    \/ \E t \in Tasks : ApplyMerge(t)
    \/ ApplyTextMerge

SpecMerge == InitMerge /\ [][NextMerge]_vars

\* ------------------------------------------------------------------ claims
Puts(log) == {i \in 1..Len(log) : log[i].op = "put"}
Gets(log) == {i \in 1..Len(log) : log[i].op = "get"}
EnteredWriter(c) == c.op = "putWithRetry" \/ (c.op = "likePost" /\ c.pc \notin {"idle", "awaitGet"} /\ Puts(c.log) # {})
Finished(c) == c.pc = "done"
LikeCompleted(c, id) == c.op = "likePost" /\ c.draft.id = id /\ c.outcome = "completed"

\* C1: two likePost operations on the same post that both completed, with no
\* other write to the post (the post is two revisions past its initial one),
\* leave the like counter at its initial value plus 2.
C1_NoLostUpdate ==
    \A id \in ContendedIds :
        (/\ \A t \in Tasks : LikeCompleted(call[t], id)
         /\ localDocs[id].gen = InitialDoc.gen + 2)
        => localDocs[id].likes = InitialDoc.likes + 2

\* C2: a putWithRetry call whose draft has no _id ends at once with the
\* "missing" error, issues no put and no get, and leaves the local store as it was.
C2_MissingIdInv ==
    \A t \in Tasks :
        (call[t].op = "putWithRetry" /\ call[t].draft.id = NoId)
        => /\ call[t].pc = "done"
           /\ call[t].outcome = "thrown"
           /\ call[t].err = [status |-> "missing", at |-> 0]
           /\ call[t].log = <<>>

C2_MissingIdStep ==
    \A t \in Tasks :
        (call[t].pc = "idle" /\ call'[t].op = "putWithRetry" /\ call'[t].draft.id = NoId)
        => localDocs' = localDocs

C2_MissingIdNeverReachesStore == []C2_MissingIdInv /\ [][C2_MissingIdStep]_vars

C2_Witness ==
    \E t \in Tasks :
        /\ call[t].op = "putWithRetry" /\ call[t].draft.id = NoId
        /\ call[t].pc = "done" /\ call[t].outcome = "thrown"
        /\ localDb # NULL

\* C3: a putWithRetry call all of whose puts were answered "409" never returns
\* success and has left no write in the store; once its budget is zero the
\* "409" of its last put is thrown to the caller (budget + 1 puts were made).
AllPutsConflict(c) == Puts(c.log) # {} /\ \A i \in Puts(c.log) : c.log[i].res = "409"

C3_ExhaustedConflictSurfaces ==
    \A t \in Tasks :
        LET c == call[t]
        IN (EnteredWriter(c) /\ AllPutsConflict(c))
           => /\ c.outcome \notin {"returned", "completed"}
              /\ c.pc # "awaitFetchPosts"
              /\ c.result = NoRev
              /\ localDocs[c.draft.id].by # t
              /\ (c.maxRetry = 0 /\ c.log[Len(c.log)].op = "put")
                 => /\ c.pc = "done"
                    /\ c.outcome \in {"thrown", "logged"}
                    /\ c.err = [status |-> "409", at |-> Len(c.log)]
                    /\ Cardinality(Puts(c.log)) = c.budget + 1
              /\ (Finished(c) /\ c.err.status = "409") => c.maxRetry = 0

C3_Witness ==
    \E t \in Tasks :
        /\ call[t].op = "putWithRetry" /\ call[t].budget = DefaultMaxRetry
        /\ AllPutsConflict(call[t])
        /\ call[t].pc = "done" /\ call[t].err.status = "409"
        /\ Cardinality(Puts(call[t].log)) = DefaultMaxRetry + 1

\* C4: in a call's store operations, a put answered with an error other than
\* "409", or a get answered with an error, is the call's last store operation,
\* and its error is the one the call ends with.
FailsHard(e) == (e.op = "put" /\ e.res \notin {"201", "409"}) \/ (e.op = "get" /\ e.res # "200")

C4_OtherErrorsPropagateImmediately ==
    \A t \in Tasks :
        LET c == call[t]
        IN \A i \in 1..Len(c.log) :
              FailsHard(c.log[i])
              => /\ i = Len(c.log)
                 /\ c.pc = "done"
                 /\ c.outcome \in {"thrown", "logged"}
                 /\ c.err = [status |-> c.log[i].res, at |-> i]

\* a non-conflict put error, and a not-found on the retry path, with budget left
C4_Witness ==
    /\ \E t \in Tasks :
          LET c == call[t]
          IN /\ c.pc = "done" /\ c.maxRetry > 0 /\ Len(c.log) >= 2
             /\ c.log[Len(c.log)] = [op |-> "get", res |-> "404"]
             /\ c.log[Len(c.log) - 1] = [op |-> "put", res |-> "409"]
    /\ \E t \in Tasks :
          LET c == call[t]
          IN /\ c.pc = "done" /\ c.maxRetry > 0 /\ Len(c.log) >= 1
             /\ c.log[Len(c.log)] = [op |-> "put", res |-> "500"]

\* C5: at most one continuous channel is active; a channel syncHandler does not
\* reference is cancelled (and the referenced one is active); and whenever a
\* channel is created, every channel created before it was cancelled earlier.
CancelledBefore(log, c, i) == \E j \in 1..(i - 1) : log[j] = [ev |-> "cancel", ch |-> c]

C5_AtMostOneActiveChannel ==
    /\ Cardinality(Active(channels)) <= 1
    /\ \A c \in 1..Len(channels) :
          IF c = syncHandler THEN channels[c] = "active" ELSE channels[c] = "cancelled"
    /\ syncHandler \in {NoChannel} \cup (1..Len(channels))
    /\ \A i \in 1..Len(chanLog) :
          chanLog[i].ev = "create"
          => /\ \A c \in 1..(chanLog[i].ch - 1) : CancelledBefore(chanLog, c, i)
             /\ \A j \in 1..Len(chanLog) :
                   (chanLog[j].ev = "create" /\ j # i) => chanLog[j].ch # chanLog[i].ch

\* startLiveSync ran while a channel was active: its cancel is directly
\* followed by the creation of the next channel, which is the one active now.
C5_Witness ==
    /\ \E i \in 1..(Len(chanLog) - 1) :
          /\ chanLog[i].ev = "cancel"
          /\ chanLog[i + 1] = [ev |-> "create", ch |-> chanLog[i].ch + 1]
    /\ Cardinality(Active(channels)) = 1
    /\ Len(channels) >= 3

\* C6: when the watcher callbacks run so far are offline, online, offline,
\* online, the first of them having found one active channel, exactly one
\* channel is active (the last created one) and all earlier ones are cancelled.
FourToggles == Len(cbLog) = 4 /\ cbLog[1].activeBefore = 1
               /\ <<cbLog[1].v, cbLog[2].v, cbLog[3].v, cbLog[4].v>> = <<FALSE, TRUE, FALSE, TRUE>>

C6_OfflineOnlineTwice ==
    FourToggles
    => /\ Active(channels) = {Len(channels)}
       /\ syncHandler = Len(channels)
       /\ \A c \in 1..(Len(channels) - 1) : channels[c] = "cancelled"

C6_Witness == FourToggles /\ Len(channels) = 3 /\ initPc = "done"

\* C7: with both handles set, a watcher callback run with true leaves exactly
\* one active channel, referenced by syncHandler; one run with false leaves no
\* active channel, syncHandler null and the channel it referenced cancelled.
CallbackRuns == Len(cbLog') = Len(cbLog) + 1

C7_Step ==
    (CallbackRuns /\ localDb # NULL /\ remoteDb # NULL)
    => IF isOnline
       THEN /\ Cardinality(Active(channels')) = 1
            /\ syncHandler' \in Active(channels')
       ELSE /\ Active(channels') = {}
            /\ syncHandler' = NoChannel
            /\ syncHandler # NoChannel => channels'[syncHandler] = "cancelled"

C7_WatcherStartsAndStops == [][C7_Step]_vars

C7_Witness ==
    /\ Len(cbLog) >= 2
    /\ cbLog[Len(cbLog) - 1] = [v |-> FALSE, activeBefore |-> 1]
    /\ cbLog[Len(cbLog)] = [v |-> TRUE, activeBefore |-> 0]
    /\ Cardinality(Active(channels)) = 1

\* C8: startLiveSync invoked while isOnline is false creates no channel and
\* leaves syncHandler null; stopLiveSync invoked with no channel referenced
\* changes nothing.
StartLiveSyncInvoked ==
    \/ initPc = "createIndexes" /\ initPc' = "awaitStartLiveSync"
    \/ CallbackRuns /\ isOnline

StopLiveSyncInvoked == StartLiveSyncInvoked \/ (CallbackRuns /\ ~isOnline)

C8_Step ==
    /\ (StartLiveSyncInvoked /\ ~isOnline)
       => (channels' = channels /\ syncHandler' = NoChannel /\ syncHandler = NoChannel)
    /\ (StopLiveSyncInvoked /\ ~StartLiveSyncInvoked /\ syncHandler = NoChannel)
       => UNCHANGED <<handles, stores, call, mount, isOnline, toggles, coord, fs>>

C8_OfflineStartIsNoOp == [][C8_Step]_vars

\* C9: in the record of a fullSyncOnce invocation the pull leg starts only
\* after the push leg is done, and fetchPosts is started once at most, only
\* after the pull leg is done, and exactly once when the invocation completed.
Events(log, ev) == {i \in 1..Len(log) : log[i] = ev}
Precedes(log, first, then) ==
    \A i \in Events(log, then) : \E j \in 1..(i - 1) : log[j] = first

C9_PushThenPullThenRefresh ==
    \A f \in Syncs :
        LET log == fs[f].log
        IN /\ Precedes(log, <<"push", "done">>, <<"pull", "start">>)
           /\ Precedes(log, <<"pull", "done">>, <<"awaitFetchPosts", "start">>)
           /\ Precedes(log, <<"push", "start">>, <<"push", "done">>)
           /\ Precedes(log, <<"pull", "start">>, <<"pull", "done">>)
           /\ Cardinality(Events(log, <<"awaitFetchPosts", "start">>)) <= 1
           /\ Cardinality(Events(log, <<"push", "start">>)) <= 1
           /\ Cardinality(Events(log, <<"pull", "start">>)) <= 1
           /\ fs[f].pc = "pull" => Events(log, <<"push", "done">>) # {}
           /\ fs[f].outcome = "completed"
              => Cardinality(Events(log, <<"awaitFetchPosts", "start">>)) = 1
           /\ \A m \in fs[f].moved :
                 m.leg = "pull" => Events(log, <<"push", "done">>) # {}

C9_Witness ==
    \E f \in Syncs :
        /\ fs[f].outcome = "completed"
        /\ \E m \in fs[f].moved : m.leg = "push"
        /\ \E m \in fs[f].moved : m.leg = "pull"

\* C10: a failed leg ends the invocation: the failure is its last event, it is
\* logged and not thrown, no pull follows a failed push and no refresh follows
\* a failed leg; the failing step writes to neither store, and what the
\* invocation transferred is still held by its target (at that revision or a
\* later one).
FailedAt(log) == {i \in 1..Len(log) : log[i][2] = "failed"}
Holds(d, rev) == Rev(d) = rev \/ Beats(d, rev)

C10_Inv ==
    \A f \in Syncs :
        LET log == fs[f].log
        IN \A i \in FailedAt(log) :
              /\ i = Len(log)
              /\ fs[f].pc = "done"
              /\ fs[f].outcome = "logged"
              /\ Events(log, <<"awaitFetchPosts", "start">>) = {}
              /\ log[i][1] = "push" => Events(log, <<"pull", "start">>) = {}
              /\ \A m \in fs[f].moved :
                    Holds(IF m.leg = "push" THEN remoteDocs[m.id] ELSE localDocs[m.id], m.rev)

C10_Step ==
    \A f \in Syncs :
        (FailedAt(fs[f].log) = {} /\ FailedAt(fs'[f].log) # {}) => UNCHANGED stores

C10_FailedLegIsLoggedNoRollback == []C10_Inv /\ [][C10_Step]_vars

C10_Witness ==
    \E f \in Syncs :
        /\ fs[f].outcome = "logged"
        /\ fs[f].log[Len(fs[f].log)] = <<"pull", "failed">>
        /\ \E m \in fs[f].moved : m.leg = "push"
        /\ \E m \in fs[f].moved : m.leg = "pull"

\* --------------------------------------------------------------------- C11
\* Both replications of a fullSyncOnce have resolved, nothing else wrote to a
\* store meanwhile, and the local store had nothing to send when it was called.
PullOnly(r) == r.pc = "awaitFetchPosts" /\ r.quiet /\ r.atStart.push = {}

\* C11: when the local store has no pending change and the remote holds N
\* documents the local store lacks, a successful fullSyncOnce leaves the N
\* documents in the local store with the remote's content and revision, writes
\* nothing to the remote, and writes each of the N documents locally once.
C11_PullOnlySyncWritesEachOnce ==
    \A f \in Syncs :
        LET r == fs[f]
        IN PullOnly(r) =>
              /\ \A id \in r.atStart.pull :
                    /\ localDocs[id] = remoteDocs[id]
                    /\ \E m \in r.moved :
                          m.leg = "pull" /\ m.id = id /\ m.rev = Rev(remoteDocs[id])
              /\ r.writes.push = 0
              /\ \A m \in r.moved : m.leg = "pull" /\ m.id \in r.atStart.pull
              /\ r.writes.pull = Cardinality(r.atStart.pull)

\* Two documents created remotely, absent locally when fullSyncOnce was called
\* (only a pull brings a document that was not seeded into the local store).
C11_Witness ==
    \E f \in Syncs :
        /\ PullOnly(fs[f])
        /\ (DocIds \ SeededIds) \subseteq fs[f].atStart.pull
        /\ Cardinality(DocIds \ SeededIds) = 2
        /\ \A id \in DocIds \ SeededIds : Exists(localDocs[id])

\* --------------------------------------------------------------------- C16
\* Every store call of a writer call is answered before the next is issued, a
\* get follows a put answered 409 and a put follows a get answered 200.
C16_Inv ==
    \A t \in Tasks :
        LET c == call[t]
        IN /\ c.log # <<>> =>
                 c.log[1].op = (IF c.op = "likePost" THEN "get" ELSE "put")
           /\ \A i \in 2..Len(c.log) :
                 /\ c.log[i].op = "get" => c.log[i - 1] = [op |-> "put", res |-> "409"]
                 /\ c.log[i].op = "put" => c.log[i - 1] = [op |-> "get", res |-> "200"]
           /\ c.pc \in {"awaitPut", "awaitRetryGet"} => c.maxRetry >= 0
           /\ c.pc = "awaitRetryGet" => c.log[Len(c.log)] = [op |-> "put", res |-> "409"]

\* The retry's get answered with a document and the next put is issued.
RetryIssued(t) == call[t].pc = "awaitRetryGet" /\ call'[t].pc = "awaitPut"

C16_Step ==
    \A t \in Tasks :
        RetryIssued(t) =>
            LET id == call[t].draft.id
                stored == localDocs[id]
            IN /\ call'[t].draft.id = id
               /\ call'[t].draft.rev = [gen |-> stored.gen, by |-> stored.by]
               /\ call'[t].draft.likes =
                     (IF call[t].merge = "like" THEN stored.likes + 1 ELSE stored.likes)
               /\ call'[t].maxRetry = call[t].maxRetry - 1
               /\ call'[t].log = Append(call[t].log, [op |-> "get", res |-> "200"])

\* C16: within one putWithRetry call the attempts are sequential: a get is
\* issued only after the preceding put was answered with a conflict, the next
\* put's draft is merge(latest) with the _id and _rev of the document that get
\* returned, and the budget of the next attempt is one less.
C16_RetriesAreSequential == []C16_Inv /\ [][C16_Step]_vars

\* A direct call that retried twice and had its third put accepted.
C16_Witness ==
    \E t \in Tasks :
        /\ call[t].op = "putWithRetry" /\ call[t].outcome = "returned"
        /\ Len(call[t].log) = 5
        /\ call[t].maxRetry = 0

\* --------------------------------------------------------------------- C17
\* The put of a writer call is accepted in this step.
PutAcceptedNow(t) ==
    /\ call[t].pc = "awaitPut"
    /\ call'[t].log = Append(call[t].log, [op |-> "put", res |-> "201"])

C17_Step ==
    \A t \in Tasks :
        PutAcceptedNow(t) =>
            LET id == call[t].draft.id
            IN /\ call'[t].result = [gen |-> localDocs[id].gen + 1, by |-> t]
               /\ call'[t].result = [gen |-> localDocs'[id].gen, by |-> localDocs'[id].by]
               /\ localDocs'[id].likes = call[t].draft.likes
               /\ ~localDocs'[id].deleted

C17_Inv ==
    \A t \in Tasks :
        call[t].outcome = "returned" =>
            /\ call[t].result.gen > call[t].draft.rev.gen
            /\ call[t].result.by = t

\* C17: when putWithRetry returns, its value carries the revision the store
\* assigned to the accepted write, and right after the acceptance the stored
\* document holds the accepted draft's content under that revision.
C17_ReturnsAcceptedRevision == []C17_Inv /\ [][C17_Step]_vars

\* A call that returned after a retry, the stored revision being the returned one.
C17_Witness ==
    \E t \in Tasks :
        /\ call[t].outcome = "returned"
        /\ Len(call[t].log) >= 3
        /\ call[t].result = Rev(localDocs[call[t].draft.id])
        /\ localDocs[call[t].draft.id].likes = call[t].draft.likes

\* --------------------------------------------------------------------- C15
\* C15: no store failure escapes an entry point of the core: initDatabases on
\* mount, likePost and fullSyncOnce catch every error a store call of theirs
\* returns, and no step of the initialization is skipped by an uncaught error.
C15_NoFailureEscapes ==
    /\ initPc # "failed"
    /\ \A t \in Tasks : call[t].op = "likePost" => call[t].outcome # "thrown"
    /\ \A f \in Syncs : fs[f].outcome # "thrown"

\* --------------------------------------------------------------------- C13
C13_Inv == events.refresh = events.change

C13_Step ==
    events'.change # events.change =>
        /\ events'.change = events.change + 1
        /\ Len(fetches') = Len(fetches) + 1
        /\ fetches'[Len(fetches')].pc = "awaitFind"

\* C13: every change event of the active channel starts one fetchPosts
\* invocation; no event is dropped or merged with another.
C13_EveryChangeStartsARefresh == []C13_Inv /\ [][C13_Step]_vars

\* Two change events whose refreshes are pending together.
C13_Witness ==
    /\ events.change >= 2
    /\ events.refresh = events.change
    /\ Len(fetches) = 2

\* --------------------------------------------------------------------- C14
\* C14: an error event of the channel is only logged: the channel is not
\* cancelled, syncHandler is not cleared and no channel is created, so the
\* active channels and the online flag are as before the event.
C14_ErrorEventOnlyLogged ==
    [][events'.error # events.error =>
          /\ syncHandler' = syncHandler
          /\ channels' = channels
          /\ chanLog' = chanLog
          /\ isOnline' = isOnline]_vars

\* An error event was handled and the channel it came from is still the
\* referenced, active one.
C14_Witness ==
    /\ events.error > 0
    /\ syncHandler # NoChannel
    /\ Active(channels) = {syncHandler}

\* --------------------------------------------------------------------- C19
\* C19: for any interleaving of overlapping fetchPosts invocations, once no
\* refresh is in flight (and none has failed) postsData is the first page of
\* the query evaluated against the store as it is: no stale result stays
\* displayed.
C19_NoStaleDisplay ==
    (initPc = "done" /\ fetches = <<>> /\ events.failed = 0)
        => postsData = Query(localDocs)

\* --------------------------------------------------------------------- C12
\* The comments of the local store that refer to a post and are not deleted.
LiveComments(comments, postId) ==
    {c \in Commenters : comments[c].gen > 0 /\ ~comments[c].deleted
                           /\ comments[c].postId = postId}

\* deletePost completes in this step, no error was caught and no other writer
\* acted while it ran (so the revision it was called with was the stored one).
DeleteCompletesAlone ==
    del.pc = "awaitFetchPosts" /\ del'.outcome = "completed" /\ del'.alone

\* C12: cascade delete: when deletePost(id, rev), called with the post's
\* current revision, completes with no other operation interleaved, the post
\* is deleted and no comment that is not deleted refers to it, so a query for
\* the comments of the post returns nothing.
C12_CascadeDelete ==
    [][DeleteCompletesAlone =>
          /\ localDocs'[del.id].deleted
          /\ LiveComments(localComments', del.id) = {}
          /\ Found(localComments', del.id) = {}
          /\ \A i \in 1..Len(postsData') : postsData'[i].id # del.id]_vars

\* deletePost completed alone on a post with two comments.
C12_Witness ==
    /\ del.outcome = "completed" /\ del.alone
    /\ Cardinality(del.found) = 2
    /\ \A c \in Commenters : localComments[c].deleted /\ localComments[c].postId = del.id

\* --------------------------------------------------------------------- C18
\* C18: a comment is only created with a back-reference to a post that is in
\* the local store, not deleted, at the moment the comment is written.
C18_CommentRefersToExistingPost ==
    [][\A t \in Commenters :
          (localComments[t].gen = 0 /\ localComments'[t].gen > 0)
              => Exists(localDocs[localComments'[t].postId])]_vars

\* --------------------------------------------------------------------- C20
\* A replication is under way: an active continuous channel, or the push leg
\* of a fullSyncOnce.
Replicating == Active(channels) # {} \/ \E f \in Syncs : fs[f].pc = "push"

\* The remote document changes in this step by the hand of another client.
ByOtherClient(id) ==
    /\ remoteDocs'[id].by = "remote"
    /\ remoteDocs'[id].gen = remoteDocs[id].gen + 1

\* C20: the application operations read and write only the local store: while
\* no channel is active and no fullSyncOnce runs no operation of the
\* application changes the remote store, which changes only through a
\* replication leg or the continuous channel (a copy of the local document),
\* or by the remote's other clients.
C20_RemoteChangesOnlyByReplication ==
    [][\A id \in DocIds :
          remoteDocs'[id] # remoteDocs[id] =>
              \/ ByOtherClient(id)
              \/ Replicating /\ remoteDocs'[id] = localDocs[id]]_vars

\* Offline, with no channel and no fullSyncOnce running: the remote holds a
\* revision the application wrote while a channel was active, the local store a
\* later one the application wrote since, which the remote lacks.
C20_Witness ==
    /\ ~isOnline
    /\ ~Replicating
    /\ \A f \in Syncs : fs[f].pc \in {"idle", "done"}
    /\ \E id \in ContendedIds :
          /\ remoteDocs[id].by = "app"
          /\ localDocs[id].by = "app"
          /\ localDocs[id].gen > remoteDocs[id].gen

\* --------------------------------------------------------------------- C22
\* C22: the two sync modes are exclusive: no leg of a fullSyncOnce is in
\* progress while a continuous channel is active.
C22_SyncModesExclusive ==
    ~(/\ \E f \in Syncs : fs[f].pc \in {"push", "pull"}
      /\ Active(channels) # {})

\* --------------------------------------------------------------------- C26
\* C26: whenever the online flag is false and the watcher has no job queued
\* for it, no continuous channel is active.
C26_OfflineMeansNoChannel ==
    (~isOnline /\ ~watchQueued) => Active(channels) = {}

\* --------------------------------------------------------------------- C25
\* The gets a call makes outside putWithRetry: likePost's own.
OwnGets(c) == IF c.op = "likePost" THEN 1 ELSE 0

\* C25: a putWithRetry call with retry budget n is over after at most n + 1
\* puts and n gets, whatever the other writers do: its (n + 1)-th put is
\* answered and no further store call is pending.
C25_BoundedAttempts ==
    \A t \in Tasks :
        LET c == call[t]
            puts == Cardinality(Puts(c.log))
            gets == Cardinality(Gets(c.log)) - OwnGets(c)
        IN c.op \in {"putWithRetry", "likePost"} =>
              /\ puts <= c.budget + 1
              /\ gets <= c.budget
              /\ c.pc = "awaitPut" => puts <= c.budget
              /\ c.pc = "awaitRetryGet" => gets < c.budget
              /\ puts = c.budget + 1 => c.pc \notin {"awaitPut", "awaitRetryGet"}

\* A call with the default budget that used it up: 3 puts, 2 gets, and over.
C25_Witness ==
    \E t \in Tasks :
        /\ call[t].op = "putWithRetry" /\ call[t].budget = DefaultMaxRetry
        /\ Cardinality(Puts(call[t].log)) = 3
        /\ Cardinality(Gets(call[t].log)) = 2
        /\ call[t].pc = "done"

\* --------------------------------------------------------------------- C28
\* deletePost awaits its remove with a revision the stored post has left behind.
StaleRemovePending ==
    /\ del.pc = "awaitRemove"
    /\ Exists(localDocs[del.id])
    /\ del.rev # [gen |-> localDocs[del.id].gen, by |-> localDocs[del.id].by]

C28_Step ==
    (StaleRemovePending /\ del'.pc # del.pc) =>
        /\ del'.pc = "done" /\ del'.outcome = "logged"
        /\ Len(del'.log) = 1 /\ del'.log[1].op = "remove" /\ del'.log[1].res # "200"
        /\ del'.found = {}
        /\ localDocs' = localDocs
        /\ localComments' = localComments

\* C28: deletePost(id, rev) called with a stale revision is rejected without a
\* retry and leaves the local store as it was: the post keeps its current
\* revision and none of its comments is deleted.
C28_StaleDeleteRejected == [][C28_Step]_vars

\* A deletePost that the store refused with a conflict, the post and a comment
\* of it still there.
C28_Witness ==
    /\ del.outcome = "logged"
    /\ del.log = <<[op |-> "remove", res |-> "409"]>>
    /\ Exists(localDocs[del.id])
    /\ del.rev # Rev(localDocs[del.id])
    /\ LiveComments(localComments, del.id) # {}

\* --------------------------------------------------------------------- C27
\* deletePost removed its post and completed, and no addComment or
\* updateComment is still running.
CascadeOver ==
    /\ del.outcome = "completed"
    /\ \A t \in Commenters : cmt[t].pc \in {"idle", "done"}
    /\ upd.pc \in {"idle", "done"}

\* C27: when a deletePost that removes its post interleaves with addComment,
\* updateComment or comments arriving through replication, then once all of
\* them have completed no comment that is not deleted refers to the post.
C27_NoOrphanComment ==
    CascadeOver => LiveComments(localComments, del.id) = {}

\* --------------------------------------------------------------------- C24
\* C24: a likePost that completed on a post nobody else wrote (the stored
\* revision is the first one after the seeded one and is the likePost's own)
\* leaves the post as it was except for its like counter, which is 1 higher.
C24_SingleLikeAddsOne ==
    \A t \in Tasks, id \in ContendedIds :
        (/\ LikeCompleted(call[t], id)
         /\ localDocs[id].gen = InitialDoc.gen + 1
         /\ localDocs[id].by = t)
        => /\ localDocs[id].likes = InitialDoc.likes + 1
           /\ localDocs[id].name = InitialDoc.name
           /\ ~localDocs[id].deleted

\* --------------------------------------------------------------------- C21
\* The merge functions of the given kinds, applied twice, give what one
\* application gives: merge(merge(d)) = merge(d).
Idempotent(kinds) ==
    /\ \A t \in Tasks :
           (call[t].pc = "applyMerge" /\ call[t].merge \in kinds /\ Len(call[t].log) >= 2)
           => call[t].log[2].res = call[t].log[1].res
    /\ (upd.pc = "applyMerge" /\ Len(upd.log) >= 2) => upd.log[2].res = upd.log[1].res

\* C21 as stated: every merge function passed to putWithRetry, by updatePost,
\* likePost and updateComment, is idempotent.
C21_EveryMergeIdempotent == Idempotent({"like", "edit"})

\* C21, amended: the merge functions of updatePost and updateComment are
\* idempotent (likePost's adds 1 at each application).
C21_EditMergesIdempotent == Idempotent({"edit"})

\* updatePost's merge was applied twice to a post whose name the first
\* application changed.
C21_Witness ==
    \E t \in Tasks :
        /\ call[t].pc = "applyMerge" /\ call[t].merge = "edit"
        /\ Len(call[t].log) >= 2
        /\ call[t].log[1].res # call[t].draft

\* --------------------------------------------------------------------- C29
\* The put of updatePost on post id is accepted in this step.
EditAccepted(t, id) ==
    /\ call[t].op = "updatePost" /\ call[t].pc = "awaitPut" /\ call[t].draft.id = id
    /\ localDocs'[id] # localDocs[id]
    /\ localDocs'[id].by = t

\* The put of updateComment is accepted in this step.
CommentEditAccepted ==
    /\ upd.pc = "awaitPut"
    /\ localComments'[upd.c] # localComments[upd.c]
    /\ localComments'[upd.c].by = "edit"

C29_Step ==
    /\ \A t \in Tasks, id \in ContendedIds :
           EditAccepted(t, id)
           => /\ localDocs'[id].likes = localDocs[id].likes
              /\ localDocs'[id].deleted = localDocs[id].deleted
              /\ localDocs'[id].name = "edited"
    /\ CommentEditAccepted
       => /\ localComments'[upd.c].postId = localComments[upd.c].postId
          /\ localComments'[upd.c].deleted = localComments[upd.c].deleted
          /\ localComments'[upd.c].text = "edited"

\* C29: whenever a write of updatePost is accepted, the stored post differs
\* from the revision it replaced in the edited fields only (its likes are
\* those of the replaced revision), whatever likePost and replicated changes
\* did in between; a write of updateComment changes only the comment's text.
C29_EditKeepsOtherFields == [][C29_Step]_vars

\* updatePost completed after a conflict, on a post another writer had liked
\* since the form was opened.
C29_Witness ==
    \E t \in Tasks :
        /\ call[t].op = "updatePost" /\ call[t].outcome = "completed"
        /\ \E i \in Puts(call[t].log) : call[t].log[i].res = "409"
        /\ localDocs[call[t].draft.id].by = t
        /\ localDocs[call[t].draft.id].likes > 0

\* --------------------------------------------------------------------- C23
\* Both stores hold the same revision of every document.
SameRevisions == \A id \in DocIds : localDocs[id] = remoteDocs[id]

C30_NoDuplicatePost ==
    \A i, j \in 1..Len(postsData) : postsData[i].id = postsData[j].id => i = j

\* --------------------------------------------------------------------- C31
\* Between two operations the list is the first posts of the store, each once
\* and in order, and all of them once hasMorePosts is false.
C31_Inv ==
    Quiet => /\ Len(postsData) <= Len(Held(localDocs))
             /\ postsData = SubSeq(Held(localDocs), 1, Len(postsData))
             /\ ~hasMorePosts => postsData = Held(localDocs)

\* A page is delivered: hasMorePosts is whether it holds PAGE_SIZE posts.
\* hasMorePosts is false: no find of loadMorePosts is issued.
C31_Step ==
    /\ (fetches # <<>> /\ fetches' = <<>>)
       => hasMorePosts' = (Len(fetches[1].docs) = PAGE_SIZE)
    /\ (initPc = "awaitFetchPosts" /\ initPc' = "done")
       => hasMorePosts' = (Len(postsData') = PAGE_SIZE)
    /\ (~hasMorePosts /\ Len(fetches') > Len(fetches))
       => fetches'[Len(fetches')].op = "fetchPosts"

LocalWrite(id) == localDocs'[id] # localDocs[id] /\ localDocs'[id].by \in Tasks

C32_Step ==
    \A id \in DocIds :
        /\ localDocs[id].likes \in Nat
        /\ localDocs'[id].likes \in Nat
        /\ (LocalWrite(id) /\ Exists(localDocs[id]))
           => localDocs'[id].likes >= localDocs[id].likes

\* C32: the like counter of every post of the local store is a natural number,
\* and no write of addPost, updatePost, likePost or of an attachment operation
\* lowers it, whatever the interleaving.
C32_LikesNeverDecrease == [][C32_Step]_vars

\* updatePost, started on a copy older than a like of another client, and
\* addPost both completed; the post kept the like.
C32_Witness ==
    \E t, u \in Tasks :
        /\ call[t].op = "updatePost" /\ call[t].outcome = "completed"
        /\ localDocs[call[t].draft.id].by = t
        /\ localDocs[call[t].draft.id].likes > 0
        /\ call[u].op = "addPost" /\ call[u].outcome = "completed"

\* --------------------------------------------------------------------- C34
\* Both likePost operations of the earlier version read the same revision of
\* post id and have ended, and the post is one revision past the one read,
\* written by one of them (nobody else wrote it).
BothLikedSameRevision(id) ==
    /\ \A t \in Tasks : /\ call[t].op = "earlier.likePost" /\ call[t].draft.id = id
                        /\ call[t].pc = "done" /\ Puts(call[t].log) # {}
    /\ \A t, u \in Tasks : call[t].draft.rev = call[u].draft.rev
    /\ localDocs[id].by \in Tasks
    /\ \A t \in Tasks : localDocs[id].gen = call[t].draft.rev.gen + 1

C34_Inv ==
    /\ \A t \in Tasks :
          call[t].op = "earlier.likePost"
          => /\ Cardinality(Gets(call[t].log)) <= 1
             /\ Cardinality(Puts(call[t].log)) <= 1
    /\ \A id \in ContendedIds :
        BothLikedSameRevision(id)
        => \E t \in Tasks :
              LET u == CHOOSE v \in Tasks : v # t
              IN /\ call[t].outcome = "completed"
                 /\ localDocs[id].by = t
                 /\ call[u].outcome = "logged"
                 /\ call[u].err.status = "409"
                 /\ Cardinality(Puts(call[u].log)) = 1
                 /\ Cardinality(Gets(call[u].log)) = 1
                 /\ localDocs[id].likes = call[t].draft.likes
                 /\ call[t].draft.likes = call[u].draft.likes

\* A write of likePost is accepted in this step: its draft carried the stored
\* revision, and the counter becomes the one read plus 1.
C34_Step ==
    \A t \in Tasks, id \in ContendedIds :
        (/\ call[t].op = "earlier.likePost" /\ call[t].draft.id = id
         /\ localDocs'[id] # localDocs[id] /\ localDocs'[id].by = t)
        => /\ call[t].draft.rev = Rev(localDocs[id])
           /\ localDocs'[id].likes = localDocs[id].likes + 1

\* C34: in the earlier version, of two likePost operations that read the same
\* revision of a post exactly one has its put accepted, the other is rejected
\* with a conflict that is logged and not retried, and the counter ends at the
\* value read plus 1; no put carrying a stale revision writes the counter.
C34_EarlierLikeNoRetry == []C34_Inv /\ [][C34_Step]_vars

\* Both read the seeded revision; one completed, the other logged its conflict.
C34_Witness ==
    /\ BothLikedSameRevision("post:1")
    /\ localDocs["post:1"].likes = InitialDoc.likes + 1
    /\ \E t \in Tasks : call[t].outcome = "logged"

\* --------------------------------------------------------------------- C33
\* The steps of a fullSync in their order, each with its start.
FullSyncOrder == <<"push", "push", "pull", "pull", "fetchData", "fetchData">>
IsFullSync(r) == r.by \in {"watch", "button"}
Has(r, ev) == \E k \in 1..Len(r.log) : r.log[k] = ev

C33_Inv ==
    \A i \in 1..Len(fs) :
        IsFullSync(fs[i])
        => /\ Len(fs[i].log) <= Len(FullSyncOrder)
           /\ \A k \in 1..Len(fs[i].log) :
                 /\ fs[i].log[k][1] = FullSyncOrder[k]
                 /\ (k % 2 = 1) = (fs[i].log[k][2] = "start")
           /\ Has(fs[i], <<"push", "failed">>) => Has(fs[i], <<"pull", "start">>)
           /\ (fs[i].pc = "done" /\ ~Has(fs[i], <<"pull", "failed">>))
                 => Has(fs[i], <<"fetchData", "done">>)

\* The watcher's callback ran in this step: with true it started one fullSync,
\* with false it started nothing and wrote nothing.
C33_Step ==
    /\ cbLog' # cbLog
       => IF isOnline
          THEN fs' = Append(fs, EarlierFullSync("watch"))
          ELSE fs' = fs /\ stores' = stores
    /\ (Len(fs') > Len(fs) /\ fs'[Len(fs')].by = "watch") => (cbLog' # cbLog /\ isOnline)

\* C33: in the earlier version fullSync runs the push leg and then the pull
\* leg; a failed push is logged inside syncToRemote and the pull and the
\* refresh after it still run; the online flag switched to true triggers one
\* fullSync, switched to false it triggers no sync action.
C33_EarlierFullSync == []C33_Inv /\ [][C33_Step]_vars

\* A fullSync triggered by the flag whose push failed and whose pull and
\* refresh ran, after the flag had been switched to false with nothing started.
C33_Witness ==
    /\ \E i \in 1..Len(fs) :
          /\ fs[i].by = "watch"
          /\ Has(fs[i], <<"push", "failed">>)
          /\ Has(fs[i], <<"fetchData", "done">>)
    /\ \E k \in 1..Len(cbLog) : ~cbLog[k].v
    /\ Cardinality({i \in 1..Len(fs) : fs[i].by = "watch"}) = 1

====
